---- MODULE Spec2Model ----
(***************************************************************************)
(* The Confirmation Model pipeline of Rime504/Trading.                     *)
(*                                                                         *)
(* Prices are integers and the instrument's min_tick is 1, so that every   *)
(* `n * min_tick' of the source is the integer n.  A bar's time is the     *)
(* minute it opens at, counted from midnight (New York clock).             *)
(***************************************************************************)
EXTENDS Integers, Sequences, FiniteSets, TLC

VARIABLES
    ltf_bars,       \* the lower-timeframe bars the caller passes to check_for_signal
    htf_bars,       \* the higher-timeframe bars the caller passes
    sg,             \* the SignalGenerator object (detectors and confirmation_state)
    result,         \* the value returned by the latest check_for_signal call
    locals,         \* the local variables of the latest check_for_signal call
    calls,          \* number of check_for_signal calls made in the current run
    phase,          \* "poll", or "earlier" / "replay" when a run is repeated
    fresh,          \* a second, freshly constructed SignalGenerator (replay only)
    fresh_result,   \* what the fresh generator returned for the latest call
    probe           \* single-function specifications: the arguments of the call
                    \* examined and, once it is made, what it returned

vars == <<ltf_bars, htf_bars, sg, result, locals, calls, phase, fresh, fresh_result,
          probe>>

\* Python's None, and a local variable that was never assigned.
None == [none |-> TRUE]
Unset == [unset |-> TRUE]
\* An exception that escaped the call (a KeyError on a bar missing a field).
Raised == [raised |-> TRUE]

(***************************************************************************)
(* Bounds of the model.                                                    *)
(***************************************************************************)
MaxCalls == 3
MaxEarlierCalls == 1
MaxReplayCalls == 2
HistoryLen == 80

(***************************************************************************)
(* Configuration (config/settings.py) and literals of the source.          *)
(***************************************************************************)
MIN_SWING_CANDLES == 3
SWEEP_BUFFER_TICKS == 1
MIN_FVG_SIZE_TICKS == 2
MAX_HTF_FVG_AGE == 20
STOP_LOSS_BUFFER_TICKS == 3
ALERT_VALID_DURATION == 5
MAX_VIX_LEVEL == 20
MIN_SWEEP_QUALITY == 7
IFVG_MIN_SIZE_TICKS == 1
SwingLookback == 20
MinLtfBars == 20
MinHtfBars == 20
FvgRescanWindow == 50
IfvgWindow == 10
CisdMinBars == 10
CisdMinSweepIndex == 5
CisdMaxRun == 10
MaxLiquidityLevels == 5
MinLtfBars5 == 30
StructureLookback == 78
OvernightWindow == 100
PrevDayWindow == 156
OvernightTolerance == 10
PrevDayTolerance == 5
CleanWick == 5
LowVix == 15
MinutesPerDay == 1440
OptimalStart == 570
OptimalEnd == 600
AcceptableEnd == 660
OvernightStart == 1020
OvernightEnd == 570
min_tick == 1

Bar(t, o, h, l, c) == [time |-> t, open |-> o, high |-> h, low |-> l, close |-> c]

Last(s) == s[Len(s)]
AllButLast(s) == SubSeq(s, 1, Len(s) - 1)
\* Python's s[-n:]
Tail_n(s, n) == IF Len(s) <= n THEN s ELSE SubSeq(s, Len(s) - n + 1, Len(s))
Abs(x) == IF x < 0 THEN -x ELSE x

Range(s) == {s[i] : i \in 1..Len(s)}
SeqMin(s) == CHOOSE m \in Range(s) : \A x \in Range(s) : m <= x
SeqMax(s) == CHOOSE m \in Range(s) : \A x \in Range(s) : m >= x
Positions(n) == [k \in 1..n |-> k]

(***************************************************************************)
(* Confirmation #1: LiquiditySweepDetector                                 *)
(***************************************************************************)
\* a swing-high test that lets a neighbour be as high as the bar
IsSwingHighOrEqual(bars, k) ==
    /\ \A j \in (k - MIN_SWING_CANDLES)..(k - 1) : bars[j].high <= bars[k].high
    /\ \A j \in (k + 1)..(k + MIN_SWING_CANDLES) : bars[j].high <= bars[k].high

IsSwingHigh(bars, k) ==
    /\ \A j \in (k - MIN_SWING_CANDLES)..(k - 1) : bars[j].high < bars[k].high
    /\ \A j \in (k + 1)..(k + MIN_SWING_CANDLES) : bars[j].high < bars[k].high

IsSwingLow(bars, k) ==
    /\ \A j \in (k - MIN_SWING_CANDLES)..(k - 1) : bars[j].low > bars[k].low
    /\ \A j \in (k + 1)..(k + MIN_SWING_CANDLES) : bars[j].low > bars[k].low

\* The scan `for i in range(min_swing_candles, len(df) - min_swing_candles)':
\* the 1-based positions scanned, in order.
ScanRange(bars) ==
    SubSeq(Positions(Len(bars)), MIN_SWING_CANDLES + 1, Len(bars) - MIN_SWING_CANDLES)

\* The recorded index is Python's (0-based).
SwingHighScan(bars) ==
    LET Flagged(k) == IsSwingHigh(bars, k)
        at == SelectSeq(ScanRange(bars), Flagged)
    IN  [n \in 1..Len(at) |->
            [index |-> at[n] - 1, time |-> bars[at[n]].time,
             price |-> bars[at[n]].high, type |-> "swing_high"]]

SwingLowScan(bars) ==
    LET Flagged(k) == IsSwingLow(bars, k)
        at == SelectSeq(ScanRange(bars), Flagged)
    IN  [n \in 1..Len(at) |->
            [index |-> at[n] - 1, time |-> bars[at[n]].time,
             price |-> bars[at[n]].low, type |-> "swing_low"]]

\* identify_swings: the detector after the call (the returned pair is the
\* detector's two lists, or two empty lists when there are too few bars).
identify_swings(det, bars) ==
    IF Len(bars) < SwingLookback THEN det
    ELSE [swing_highs |-> SwingHighScan(bars), swing_lows |-> SwingLowScan(bars)]

\* the pair identify_swings returns
swings_returned(bars) ==
    IF Len(bars) < SwingLookback THEN [swing_highs |-> <<>>, swing_lows |-> <<>>]
    ELSE identify_swings([swing_highs |-> <<>>, swing_lows |-> <<>>], bars)

BuysideSweep(det, current_bar) ==
    /\ det.swing_highs # <<>>
    /\ current_bar.high >= Last(det.swing_highs).price + SWEEP_BUFFER_TICKS * min_tick
    /\ current_bar.close < Last(det.swing_highs).price

SellsideSweep(det, current_bar) ==
    /\ det.swing_lows # <<>>
    /\ current_bar.low <= Last(det.swing_lows).price - SWEEP_BUFFER_TICKS * min_tick
    /\ current_bar.close > Last(det.swing_lows).price

\* a sweep check that looks below the swing low first
SweepOfSellsideFirst(d1, current_bar) ==
    IF d1.swing_highs = <<>> /\ d1.swing_lows = <<>>
    THEN [det |-> d1, sweep |-> None]
    ELSE IF SellsideSweep(d1, current_bar)
    THEN [det |-> d1,
          sweep |-> [type |-> "sellside_sweep",
                     swing_level |-> Last(d1.swing_lows).price,
                     sweep_low |-> current_bar.low,
                     close |-> current_bar.close,
                     time |-> current_bar.time,
                     direction |-> "LONG"]]
    ELSE IF BuysideSweep(d1, current_bar)
    THEN [det |-> d1,
          sweep |-> [type |-> "buyside_sweep",
                     swing_level |-> Last(d1.swing_highs).price,
                     sweep_high |-> current_bar.high,
                     close |-> current_bar.close,
                     time |-> current_bar.time,
                     direction |-> "SHORT"]]
    ELSE [det |-> d1, sweep |-> None]

\* the sweep check of detect_sweep on the swings d1 the detector holds
\* after the rescan: [det |-> the detector, sweep |-> the result]
SweepOf(d1, current_bar) ==
    IF d1.swing_highs = <<>> /\ d1.swing_lows = <<>>
    THEN [det |-> d1, sweep |-> None]
    ELSE IF BuysideSweep(d1, current_bar)
    THEN [det |-> d1,
          sweep |-> [type |-> "buyside_sweep",
                     swing_level |-> Last(d1.swing_highs).price,
                     sweep_high |-> current_bar.high,
                     close |-> current_bar.close,
                     time |-> current_bar.time,
                     direction |-> "SHORT"]]
    ELSE IF SellsideSweep(d1, current_bar)
    THEN [det |-> d1,
          sweep |-> [type |-> "sellside_sweep",
                     swing_level |-> Last(d1.swing_lows).price,
                     sweep_low |-> current_bar.low,
                     close |-> current_bar.close,
                     time |-> current_bar.time,
                     direction |-> "LONG"]]
    ELSE [det |-> d1, sweep |-> None]

\* detect_sweep: the swings are scanned only while the detector holds none
detect_sweep(det, current_bar, previous_bars) ==
    SweepOf(IF det.swing_highs = <<>> /\ det.swing_lows = <<>>
            THEN identify_swings(det, previous_bars) ELSE det,
            current_bar)

Prices(swings) == [i \in 1..Len(swings) |-> swings[i].price]

get_liquidity_levels(det) ==
    [buyside_liquidity |-> Prices(Tail_n(det.swing_highs, MaxLiquidityLevels)),
     sellside_liquidity |-> Prices(Tail_n(det.swing_lows, MaxLiquidityLevels))]

(***************************************************************************)
(* Confirmation #2: HTFFVGDetector                                         *)
(***************************************************************************)
BearishGap(c1, c2, c3, size_ticks) ==
    /\ c2.high < c1.high
    /\ c2.low > c3.low
    /\ c1.high - c3.low >= size_ticks * min_tick

BullishGap(c1, c2, c3, size_ticks) ==
    /\ c2.low > c1.low
    /\ c2.high < c3.high
    /\ c3.high - c1.low >= size_ticks * min_tick

\* identify_fvgs appends, for each triple in turn, its bearish gap and then
\* its bullish gap.  Slot 2k-1 stands for the bearish gap of the triple at
\* 1-based position k, slot 2k for its bullish gap.
TripleOf(slot) == (slot + 1) \div 2
IsBearishSlot(slot) == slot % 2 = 1

FvgAt(bars, slot) ==
    LET k == TripleOf(slot)
        c1 == bars[k]
        c3 == bars[k + 2]
    IN  IF IsBearishSlot(slot)
        THEN [type |-> "bearish", top |-> c1.high, bottom |-> c3.low,
              size |-> c1.high - c3.low, start_index |-> k - 1,
              start_time |-> c1.time, direction |-> "SHORT",
              filled |-> FALSE, age |-> 0]
        ELSE [type |-> "bullish", top |-> c3.high, bottom |-> c1.low,
              size |-> c3.high - c1.low, start_index |-> k - 1,
              start_time |-> c1.time, direction |-> "LONG",
              filled |-> FALSE, age |-> 0]

identify_fvgs(bars) ==
    IF Len(bars) < 3 THEN <<>>
    ELSE
    LET IsGap(slot) ==
            LET k == TripleOf(slot)
            IN  IF IsBearishSlot(slot)
                THEN BearishGap(bars[k], bars[k + 1], bars[k + 2], MIN_FVG_SIZE_TICKS)
                ELSE BullishGap(bars[k], bars[k + 1], bars[k + 2], MIN_FVG_SIZE_TICKS)
        found == SelectSeq(Positions(2 * (Len(bars) - 2)), IsGap)
    IN  [n \in 1..Len(found) |-> FvgAt(bars, found[n])]

NotFilled(fvg) == ~fvg.filled

\* an update that scans every bar it is given
update_fvgs_whole_series(bars) ==
    SelectSeq(identify_fvgs(bars), NotFilled)

\* update_fvgs: the new active_fvgs
update_fvgs(bars) ==
    SelectSeq(identify_fvgs(Tail_n(bars, FvgRescanWindow)), NotFilled)

Delivery(fvg, current_bar, dir) ==
    [fvg |-> fvg, delivery_confirmed |-> TRUE,
     delivery_time |-> current_bar.time, direction |-> dir]

\* check_delivery from position k on: [fvgs |-> the list after the call
\* (age and filled are updated in place), delivery |-> the result]
RECURSIVE DeliveryScan(_, _, _)
DeliveryScan(fvgs, k, current_bar) ==
    IF k > Len(fvgs) THEN [fvgs |-> fvgs, delivery |-> None]
    ELSE IF fvgs[k].filled THEN DeliveryScan(fvgs, k + 1, current_bar)
    ELSE
    LET aged == [fvgs[k] EXCEPT !.age = @ + 1]
        expired == [aged EXCEPT !.filled = TRUE]
        with_aged == [fvgs EXCEPT ![k] = aged]
        with_filled == [fvgs EXCEPT ![k] = expired]
    IN  IF aged.age > MAX_HTF_FVG_AGE
        THEN DeliveryScan(with_filled, k + 1, current_bar)
        ELSE IF aged.type = "bearish"
        THEN IF current_bar.high >= aged.bottom
             THEN IF current_bar.close < aged.bottom
                  THEN [fvgs |-> with_aged,
                        delivery |-> Delivery(aged, current_bar, "SHORT")]
                  ELSE IF current_bar.close > aged.top
                  THEN DeliveryScan(with_filled, k + 1, current_bar)
                  ELSE DeliveryScan(with_aged, k + 1, current_bar)
             ELSE DeliveryScan(with_aged, k + 1, current_bar)
        ELSE IF aged.type = "bullish"
        THEN IF current_bar.low <= aged.top
             THEN IF current_bar.close > aged.top
                  THEN [fvgs |-> with_aged,
                        delivery |-> Delivery(aged, current_bar, "LONG")]
                  ELSE IF current_bar.close < aged.bottom
                  THEN DeliveryScan(with_filled, k + 1, current_bar)
                  ELSE DeliveryScan(with_aged, k + 1, current_bar)
             ELSE DeliveryScan(with_aged, k + 1, current_bar)
        ELSE DeliveryScan(with_aged, k + 1, current_bar)

\* a check that also ages the FVGs it did not reach
check_delivery_ageing_all(fvgs, current_bar) ==
    LET out == DeliveryScan(fvgs, 1, current_bar)
    IN  [fvgs |-> [k \in 1..Len(fvgs) |->
                      IF out.fvgs[k] = fvgs[k] /\ ~fvgs[k].filled
                      THEN [fvgs[k] EXCEPT !.age = @ + 1]
                      ELSE out.fvgs[k]],
         delivery |-> out.delivery]

\* a check that walks the list from its newest FVG
check_delivery_newest_first(fvgs, current_bar) ==
    DeliveryScan([k \in 1..Len(fvgs) |-> fvgs[Len(fvgs) + 1 - k]], 1, current_bar)

\* a check that looks again at the FVGs already marked filled
check_delivery_revisiting(fvgs, current_bar) ==
    DeliveryScan([k \in 1..Len(fvgs) |-> [fvgs[k] EXCEPT !.filled = FALSE]],
                 1, current_bar)

check_delivery(fvgs, current_bar) == DeliveryScan(fvgs, 1, current_bar)

(***************************************************************************)
(* Confirmation #3: iFVGDetector                                           *)
(***************************************************************************)
\* the detector looking at the first 4 bars it is given
detect_ifvg_inversion_oldest(bars, direction) ==
    IF Len(bars) < 4 THEN None
    ELSE
    LET c1 == bars[1]
        c2 == bars[2]
        c3 == bars[3]
        c4 == bars[4]
    IN  IF /\ direction = "SHORT"
           /\ BullishGap(c1, c2, c3, IFVG_MIN_SIZE_TICKS)
           /\ c4.close < c1.low
        THEN [type |-> "bullish_fvg_disrespected", fvg_top |-> c3.high,
              fvg_bottom |-> c1.low, inversion_close |-> c4.close,
              inversion_time |-> c4.time, direction |-> "SHORT"]
        ELSE IF /\ direction = "LONG"
                /\ BearishGap(c1, c2, c3, IFVG_MIN_SIZE_TICKS)
                /\ c4.close > c1.high
        THEN [type |-> "bearish_fvg_disrespected", fvg_top |-> c1.high,
              fvg_bottom |-> c3.low, inversion_close |-> c4.close,
              inversion_time |-> c4.time, direction |-> "LONG"]
        ELSE None

detect_ifvg_inversion(bars, direction) ==
    IF Len(bars) < 4 THEN None
    ELSE
    LET recent == Tail_n(bars, 4)
        c1 == recent[1]
        c2 == recent[2]
        c3 == recent[3]
        c4 == recent[4]
    IN  IF /\ direction = "SHORT"
           /\ BullishGap(c1, c2, c3, IFVG_MIN_SIZE_TICKS)
           /\ c4.close < c1.low
        THEN [type |-> "bullish_fvg_disrespected", fvg_top |-> c3.high,
              fvg_bottom |-> c1.low, inversion_close |-> c4.close,
              inversion_time |-> c4.time, direction |-> "SHORT"]
        ELSE IF /\ direction = "LONG"
                /\ BearishGap(c1, c2, c3, IFVG_MIN_SIZE_TICKS)
                /\ c4.close > c1.high
        THEN [type |-> "bearish_fvg_disrespected", fvg_top |-> c1.high,
              fvg_bottom |-> c3.low, inversion_close |-> c4.close,
              inversion_time |-> c4.time, direction |-> "LONG"]
        ELSE None

(***************************************************************************)
(* Confirmation #4: CISDDetector                                           *)
(***************************************************************************)
\* 1-based position of the first bar whose time is sweep_time, 0 if none.
SweepPosition(bars, sweep_time) ==
    LET hits == {i \in 1..Len(bars) : bars[i].time = sweep_time}
    IN  IF hits = {} THEN 0 ELSE CHOOSE i \in hits : \A j \in hits : i <= j

UpClose(bar) == bar.close > bar.open
DownClose(bar) == bar.close < bar.open

\* The loop `for i in range(sweep_index - 1, max(0, sweep_index - 10), -1)':
\* k is the 1-based position of the bar examined, stop the 1-based position
\* of the excluded bound; the result is the series, nearest bar first.
RECURSIVE RunScan(_, _, _, _)
RunScan(bars, k, stop, direction) ==
    IF k <= stop THEN <<>>
    ELSE IF (direction = "SHORT" /\ UpClose(bars[k]))
            \/ (direction = "LONG" /\ DownClose(bars[k]))
    THEN <<bars[k]>> \o RunScan(bars, k - 1, stop, direction)
    ELSE <<>>

\* whether the same loop reads bar['open'] of a bar that has none: the bars
\* are read nearest first, up to and including the one the loop breaks at
RECURSIVE RunRaises(_, _, _, _)
RunRaises(bars, k, stop, direction) ==
    IF k <= stop THEN FALSE
    ELSE IF "open" \notin DOMAIN bars[k] THEN TRUE
    ELSE IF (direction = "SHORT" /\ UpClose(bars[k]))
            \/ (direction = "LONG" /\ DownClose(bars[k]))
    THEN RunRaises(bars, k - 1, stop, direction)
    ELSE FALSE

\* whether detect_cisd raises KeyError instead of returning
detect_cisd_raises(bars, sweep_data, direction) ==
    /\ Len(bars) >= CisdMinBars
    /\ SweepPosition(bars, sweep_data.time) - 1 >= CisdMinSweepIndex
    /\ direction \in {"SHORT", "LONG"}
    /\ RunRaises(bars, SweepPosition(bars, sweep_data.time) - 1,
                 (IF SweepPosition(bars, sweep_data.time) - 1 - CisdMaxRun > 0
                  THEN SweepPosition(bars, sweep_data.time) - 1 - CisdMaxRun
                  ELSE 0) + 1,
                 direction)

detect_cisd(bars, sweep_data, direction) ==
    IF Len(bars) < CisdMinBars THEN None
    ELSE
    LET pos == SweepPosition(bars, sweep_data.time)
        sweep_index == pos - 1
        lower == IF sweep_index - CisdMaxRun > 0 THEN sweep_index - CisdMaxRun ELSE 0
        series == RunScan(bars, sweep_index, lower + 1, direction)
        first_candle == Last(series)
        cisd_level == first_candle.open
        current_bar == Last(bars)
    IN  IF pos = 0 \/ sweep_index < CisdMinSweepIndex THEN None
        ELSE IF direction \notin {"SHORT", "LONG"} THEN None
        ELSE IF series = <<>> THEN None
        ELSE IF \/ direction = "SHORT" /\ current_bar.close < cisd_level
                \/ direction = "LONG" /\ current_bar.close > cisd_level
        THEN [cisd_level |-> cisd_level, direction |-> direction,
              first_candle |-> first_candle,
              current_close |-> current_bar.close, time |-> current_bar.time]
        ELSE None

(***************************************************************************)
(* Edge filters.  Scores that the source keeps as floats between 0 and 1   *)
(* are kept in hundredths; a range position is the exact fraction          *)
(* num / den.                                                              *)
(***************************************************************************)
TimeOfDay(t) == t % MinutesPerDay

\* TimeFilter.is_optimal_time: <<is_optimal, reason>>
is_optimal_time(signal_time) ==
    LET current_time == TimeOfDay(signal_time)
    IN  IF OptimalStart <= current_time /\ current_time <= OptimalEnd
        THEN <<TRUE, "OPTIMAL_WINDOW">>
        ELSE IF OptimalStart <= current_time /\ current_time <= AcceptableEnd
        THEN <<TRUE, "ACCEPTABLE_WINDOW">>
        ELSE <<FALSE, "OUTSIDE_HOURS">>

time_quality_multiplier(signal_time) ==
    LET r == is_optimal_time(signal_time)
    IN  IF ~r[1] THEN 0
        ELSE IF r[2] = "OPTIMAL_WINDOW" THEN 100
        ELSE IF r[2] = "ACCEPTABLE_WINDOW" THEN 70
        ELSE 0

\* VolatilityFilter.is_favorable_volatility on the reading get_current_vix
\* returns, None or [value |-> the level]: <<is_favorable, reason, vix>>
is_favorable_volatility(reading) ==
    IF reading = None THEN <<FALSE, "VIX_UNAVAILABLE", 999>>
    ELSE IF reading.value <= LowVix
    THEN <<TRUE, "LOW_VOL_OPTIMAL", reading.value>>
    ELSE IF reading.value <= MAX_VIX_LEVEL
    THEN <<TRUE, "MODERATE_VOL_ACCEPTABLE", reading.value>>
    ELSE <<FALSE, "HIGH_VOL_UNFAVORABLE", reading.value>>

vol_quality_multiplier(reading) ==
    LET r == is_favorable_volatility(reading)
    IN  IF ~r[1] THEN 0
        ELSE IF r[2] = "LOW_VOL_OPTIMAL" THEN 100
        ELSE IF r[2] = "MODERATE_VOL_ACCEPTABLE" THEN 70
        ELSE 0

Highs(bars) == [i \in 1..Len(bars) |-> bars[i].high]
Lows(bars) == [i \in 1..Len(bars) |-> bars[i].low]

\* StructureFilter.calculate_range_position: None, or the fraction
\* (entry_price - range_low) / range_size
calculate_range_position(entry_price, bars) ==
    IF Len(bars) < StructureLookback THEN None
    ELSE
    LET recent_bars == Tail_n(bars, StructureLookback)
        range_high == SeqMax(Highs(recent_bars))
        range_low == SeqMin(Lows(recent_bars))
        range_size == range_high - range_low
    IN  IF range_size = 0 THEN [num |-> 1, den |-> 2]
        ELSE [num |-> entry_price - range_low, den |-> range_size]

\* position >= 0.70 and position <= 0.30 on the fraction
AtLeastShortMin(position) == 10 * position.num >= 7 * position.den
AtMostLongMax(position) == 10 * position.num <= 3 * position.den

\* StructureFilter.is_at_extreme: <<is_at_extreme, reason, position>>
is_at_extreme(direction, entry_price, bars) ==
    LET position == calculate_range_position(entry_price, bars)
    IN  IF position = None THEN <<FALSE, "INSUFFICIENT_DATA", [num |-> 0, den |-> 1]>>
        ELSE IF direction = "SHORT"
        THEN IF AtLeastShortMin(position)
             THEN <<TRUE, "SHORT_AT_EXTREME_TOP", position>>
             ELSE <<FALSE, "SHORT_TOO_LOW_IN_RANGE", position>>
        ELSE IF direction = "LONG"
        THEN IF AtMostLongMax(position)
             THEN <<TRUE, "LONG_AT_EXTREME_BOTTOM", position>>
             ELSE <<FALSE, "LONG_TOO_HIGH_IN_RANGE", position>>
        ELSE <<FALSE, "UNKNOWN_DIRECTION", position>>

\* StructureFilter.get_quality_score: 0.7 + normalized * 0.3, which is the
\* position itself for SHORT and 1 - position for LONG.
get_quality_score(direction, entry_price, bars) ==
    LET position == calculate_range_position(entry_price, bars)
        zero == [num |-> 0, den |-> 1]
    IN  IF position = None THEN zero
        ELSE IF direction = "SHORT"
        THEN IF AtLeastShortMin(position) THEN position ELSE zero
        ELSE IF direction = "LONG"
        THEN IF AtMostLongMax(position)
             THEN [num |-> position.den - position.num, den |-> position.den]
             ELSE zero
        ELSE zero

IsOvernight(t) ==
    TimeOfDay(t) >= OvernightStart \/ TimeOfDay(t) <= OvernightEnd

is_overnight_extreme(level, bars) ==
    LET w == Tail_n(bars, OvernightWindow)
    IN  \E i \in 1..Len(w) :
            /\ IsOvernight(w[i].time)
            /\ \/ Abs(w[i].high - level) < OvernightTolerance
               \/ Abs(w[i].low - level) < OvernightTolerance

is_previous_day_extreme(level, bars) ==
    IF Len(bars) < PrevDayWindow THEN FALSE
    ELSE
    LET prev_day_bars == SubSeq(bars, Len(bars) - PrevDayWindow + 1,
                                Len(bars) - StructureLookback)
    IN  \/ Abs(level - SeqMax(Highs(prev_day_bars))) < PrevDayTolerance
        \/ Abs(level - SeqMin(Lows(prev_day_bars))) < PrevDayTolerance

is_clean_sweep(sweep_data) ==
    IF sweep_data.type = "buyside_sweep"
    THEN Abs(sweep_data.sweep_high - sweep_data.close) > CleanWick
    ELSE IF sweep_data.type = "sellside_sweep"
    THEN Abs(sweep_data.sweep_low - sweep_data.close) > CleanWick
    ELSE FALSE

\* SweepQualityScorer.score_sweep, 0..10
score_sweep(sweep_data, bars) ==
    LET score == 5
                 + (IF is_overnight_extreme(sweep_data.swing_level, bars) THEN 3 ELSE 0)
                 + (IF is_previous_day_extreme(sweep_data.swing_level, bars) THEN 2 ELSE 0)
                 + (IF is_clean_sweep(sweep_data) THEN 1 ELSE 0)
    IN  IF score < 10 THEN score ELSE 10

(***************************************************************************)
(* SignalGenerator (signal_generator.py, and the 5-confirmation variant of *)
(* confirmation5_momentum.py)                                              *)
(***************************************************************************)
EmptyState(variant) ==
    IF variant = 5
    THEN [sweep |-> None, htf_fvg |-> None, ifvg |-> None, cisd |-> None,
          momentum |-> None]
    ELSE [sweep |-> None, htf_fvg |-> None, ifvg |-> None, cisd |-> None]

\* SignalGenerator.__init__
NewSignalGenerator(variant, filters_enabled) ==
    [variant |-> variant,
     filters_enabled |-> filters_enabled,
     sweep_detector |-> [swing_highs |-> <<>>, swing_lows |-> <<>>],
     htf_fvg_detector |-> [active_fvgs |-> <<>>],
     confirmation_state |-> EmptyState(variant)]

\* a reset that leaves the state as it is
reset_skipped(g) == g

\* _reset_confirmation_state: the generator after the call
reset_confirmation_state(g) ==
    [g EXCEPT !.confirmation_state = EmptyState(g.variant)]

NoLocals ==
    [sweep |-> Unset, direction |-> "unset", htf_delivery |-> Unset,
     ifvg_inversion |-> Unset, cisd |-> Unset, momentum |-> Unset,
     mtf_checked |-> FALSE, mtf_aligned |-> FALSE, filter_result |-> Unset]

\* the assignment without its `if sweep:' guard
RecordSweepUnguarded(cs, sweep) == [cs EXCEPT !.sweep = sweep]

\* `if sweep: self.confirmation_state['sweep'] = sweep'
RecordSweep(cs, sweep) ==
    IF sweep # None THEN [cs EXCEPT !.sweep = sweep] ELSE cs

\* the delivery recorded whatever its direction
RecordHtfFvgAnyDirection(cs, htf_delivery, direction) ==
    IF htf_delivery # None THEN [cs EXCEPT !.htf_fvg = htf_delivery] ELSE cs

\* `if htf_delivery and htf_delivery['direction'] == direction: ...'
RecordHtfFvg(cs, htf_delivery, direction) ==
    IF htf_delivery # None /\ htf_delivery.direction = direction
    THEN [cs EXCEPT !.htf_fvg = htf_delivery] ELSE cs

RecordIfvg(cs, ifvg_inversion, direction) ==
    IF ifvg_inversion # None /\ ifvg_inversion.direction = direction
    THEN [cs EXCEPT !.ifvg = ifvg_inversion] ELSE cs

RecordCisd(cs, cisd, direction) ==
    IF cisd # None /\ cisd.direction = direction
    THEN [cs EXCEPT !.cisd = cisd] ELSE cs

\* Confirmations #1 to #4 of check_for_signal, the same in both variants.
\* Each stage maps a record [sg |-> the generator, locals |-> the locals
\* assigned so far, passed |-> whether the code got past the stage's
\* `return None'] to the record after the stage.

\* Confirmation #1, ds being what detect_sweep returned
AfterSweep(g, ds) ==
    [sg |-> [g EXCEPT !.sweep_detector = ds.det,
                      !.confirmation_state = RecordSweep(@, ds.sweep)],
     locals |-> [NoLocals EXCEPT !.sweep = ds.sweep],
     passed |-> RecordSweep(g.confirmation_state, ds.sweep).sweep # None]

SweepStage(g, ltf) ==
    AfterSweep(g, detect_sweep(g.sweep_detector, Last(ltf), AllButLast(ltf)))

\* Confirmation #2, cd being what update_fvgs and check_delivery left
AfterHtfFvg(c, cd, direction) ==
    [sg |-> [c.sg EXCEPT
                !.htf_fvg_detector.active_fvgs = cd.fvgs,
                !.confirmation_state = RecordHtfFvg(@, cd.delivery, direction)],
     locals |-> [c.locals EXCEPT !.direction = direction,
                                 !.htf_delivery = cd.delivery],
     passed |-> RecordHtfFvg(c.sg.confirmation_state, cd.delivery,
                             direction).htf_fvg # None]

HtfFvgStage(c, ltf, htf) ==
    IF ~c.passed THEN c
    ELSE IF c.sg.confirmation_state.htf_fvg # None
    THEN [c EXCEPT !.locals.direction = c.sg.confirmation_state.sweep.direction]
    ELSE AfterHtfFvg(c, check_delivery(update_fvgs(htf), Last(ltf)),
                     c.sg.confirmation_state.sweep.direction)

\* Confirmation #3
AfterIfvg(c, ifvg_inversion) ==
    [sg |-> [c.sg EXCEPT !.confirmation_state =
                RecordIfvg(@, ifvg_inversion, c.locals.direction)],
     locals |-> [c.locals EXCEPT !.ifvg_inversion = ifvg_inversion],
     passed |-> RecordIfvg(c.sg.confirmation_state, ifvg_inversion,
                           c.locals.direction).ifvg # None]

IfvgStage(c, ltf) ==
    IF ~c.passed \/ c.sg.confirmation_state.ifvg # None THEN c
    ELSE AfterIfvg(c, detect_ifvg_inversion(Tail_n(ltf, IfvgWindow),
                                            c.locals.direction))

\* Confirmation #4
AfterCisd(c, cisd) ==
    [sg |-> [c.sg EXCEPT !.confirmation_state =
                RecordCisd(@, cisd, c.locals.direction)],
     locals |-> [c.locals EXCEPT !.cisd = cisd],
     passed |-> RecordCisd(c.sg.confirmation_state, cisd,
                           c.locals.direction).cisd # None]

CisdStage(c, ltf) ==
    IF ~c.passed \/ c.sg.confirmation_state.cisd # None THEN c
    ELSE IF detect_cisd_raises(ltf, c.sg.confirmation_state.sweep, c.locals.direction)
    THEN [c EXCEPT !.passed = FALSE, !.locals.cisd = Raised]
    ELSE AfterCisd(c, detect_cisd(ltf, c.sg.confirmation_state.sweep,
                                  c.locals.direction))

Confirmations(g, ltf, htf) ==
    CisdStage(IfvgStage(HtfFvgStage(SweepStage(g, ltf), ltf, htf), ltf), ltf)

\* a policy that also fails the signal outside the trading window
FilterVetoFailClosed(is_good_time, is_good_vol, at_extreme, sweep_quality) ==
    ~at_extreme \/ ~is_good_time

\* which filter outcomes make _run_edge_filters return None: time,
\* volatility and sweep quality only warn, the structure filter fails
FilterVeto(is_good_time, is_good_vol, at_extreme, sweep_quality) ==
    ~at_extreme

\* _run_edge_filters: None, or the scores
run_edge_filters(g, current_bar, direction, entry_price, ltf, vix) ==
    LET time_r == is_optimal_time(current_bar.time)
        time_score == IF ~time_r[1] THEN 50
                      ELSE time_quality_multiplier(current_bar.time)
        vol_r == is_favorable_volatility(vix)
        vol_score == IF ~vol_r[1] THEN 50 ELSE vol_quality_multiplier(vix)
        struct_r == is_at_extreme(direction, entry_price, ltf)
        structure_score == get_quality_score(direction, entry_price, ltf)
        sweep_quality == score_sweep(g.confirmation_state.sweep, ltf)
    IN  IF FilterVeto(time_r[1], vol_r[1], struct_r[1], sweep_quality) THEN None
        ELSE [time_score |-> time_score, vol_score |-> vol_score,
              structure_score |-> structure_score,
              sweep_quality |-> sweep_quality, vix |-> vol_r[3]]

\* a target that is always projected from the sweep
find_opposing_liquidity_projected(g, direction) ==
    LET sweep == g.confirmation_state.sweep
    IN  IF direction = "SHORT"
        THEN sweep.swing_level - Abs(sweep.swing_level - sweep.close) * 2
        ELSE sweep.swing_level + Abs(sweep.swing_level - sweep.close) * 2

\* _find_opposing_liquidity
find_opposing_liquidity(g, direction) ==
    LET liquidity == get_liquidity_levels(g.sweep_detector)
        sweep == g.confirmation_state.sweep
    IN  IF direction = "SHORT"
        THEN IF liquidity.sellside_liquidity # <<>>
             THEN SeqMin(liquidity.sellside_liquidity)
             ELSE sweep.swing_level - Abs(sweep.swing_level - sweep.close) * 2
        ELSE IF liquidity.buyside_liquidity # <<>>
             THEN SeqMax(liquidity.buyside_liquidity)
             ELSE sweep.swing_level + Abs(sweep.swing_level - sweep.close) * 2

\* a signal whose snapshot is taken from the state after the reset
build_signal_late_snapshot(g, current_bar, direction) ==
    [time |-> current_bar.time,
     direction |-> direction,
     entry |-> current_bar.close,
     stop_loss |-> current_bar.close,
     target |-> current_bar.close,
     risk |-> 0,
     reward |-> 0,
     risk_reward_ratio |-> [num |-> 0, den |-> 1],
     confirmations |-> EmptyState(g.variant)]

\* _build_signal; risk_reward_ratio is the fraction num / den
build_signal(g, current_bar, direction) ==
    LET sweep_level == g.confirmation_state.sweep.swing_level
        entry_price == current_bar.close
        stop_loss == IF direction = "SHORT"
                     THEN sweep_level + STOP_LOSS_BUFFER_TICKS * min_tick
                     ELSE sweep_level - STOP_LOSS_BUFFER_TICKS * min_tick
        target == find_opposing_liquidity(g, direction)
        risk == Abs(entry_price - stop_loss)
        reward == Abs(target - entry_price)
    IN  [time |-> current_bar.time,
         direction |-> direction,
         entry |-> entry_price,
         stop_loss |-> stop_loss,
         target |-> target,
         risk |-> risk,
         reward |-> reward,
         risk_reward_ratio |-> IF risk > 0 THEN [num |-> reward, den |-> risk]
                               ELSE [num |-> 0, den |-> 1],
         confirmations |-> g.confirmation_state]

DefaultScores ==
    [time_score |-> 100, vol_score |-> 100,
     structure_score |-> [num |-> 1, den |-> 1],
     sweep_quality |-> 10, vix |-> 15]

\* signal['filter_scores']
FilterScores(scores, filters_enabled) ==
    [time_score |-> scores.time_score,
     volatility_score |-> scores.vol_score,
     structure_score |-> scores.structure_score,
     sweep_quality |-> scores.sweep_quality,
     overall_score |->
        [num |-> (scores.time_score + scores.vol_score) * scores.structure_score.den
                 + 100 * scores.structure_score.num,
         den |-> 300 * scores.structure_score.den],
     vix |-> scores.vix,
     filters_enabled |-> filters_enabled]

Outcome(g, r, l) == [sg |-> g, result |-> r, locals |-> l]

\* an `except' clause that starts the episode over
except_reset(g) == [g EXCEPT !.confirmation_state = EmptyState(g.variant)]

\* `except Exception as e: ... continue' of run_backtest: the generator is
\* left as the interrupted call left it
except_continue(g) == g

\* the call ended before the four confirmations were held: an exception
\* escaped it, or it returned None
Stalled(c) ==
    IF c.locals.cisd = Raised THEN Outcome(except_continue(c.sg), Raised, c.locals)
    ELSE Outcome(c.sg, None, c.locals)

\* the end of check_for_signal, filter_result being None, the scores of
\* _run_edge_filters, or the default scores
Emit(c, filter_result, current_ltf_bar) ==
    IF filter_result = None
    THEN Outcome(reset_confirmation_state(c.sg), None,
                 [c.locals EXCEPT !.filter_result = None])
    ELSE Outcome(reset_confirmation_state(c.sg),
                 [filter_scores |-> FilterScores(filter_result, c.sg.filters_enabled)]
                    @@ build_signal(c.sg, current_ltf_bar, c.locals.direction),
                 [c.locals EXCEPT !.filter_result = filter_result])

FilterStage(c, ltf, vix) ==
    IF ~c.passed THEN Stalled(c)
    ELSE Emit(c,
              IF c.sg.filters_enabled
              THEN run_edge_filters(c.sg, Last(ltf), c.locals.direction,
                                    Last(ltf).close, ltf, vix)
              ELSE DefaultScores,
              Last(ltf))

\* SignalGenerator.check_for_signal of signal_generator.py; vix is what
\* VolatilityFilter.get_current_vix reads during the call.
check_for_signal(g, ltf, htf, vix) ==
    IF Len(ltf) < MinLtfBars \/ Len(htf) < MinHtfBars
    THEN Outcome(g, None, NoLocals)
    ELSE FilterStage(Confirmations(g, ltf, htf), ltf, vix)

\* `if momentum and momentum['direction'] == direction'
MomentumConfirms(momentum, direction) ==
    momentum # None /\ momentum.direction = direction

\* a verdict that resets the episode whenever momentum is not recorded
MomentumVerdictAlwaysReset(momentum, mtf_aligned, direction) ==
    IF MomentumConfirms(momentum, direction) /\ mtf_aligned
    THEN "record" ELSE "disqualify"

\* Confirmation #5 of the 5-confirmation variant: "record" the momentum,
\* "disqualify" the episode (reset), or "stall" (return None, keep the state)
MomentumVerdict(momentum, mtf_aligned, direction) ==
    IF MomentumConfirms(momentum, direction)
    THEN IF mtf_aligned THEN "record" ELSE "disqualify"
    ELSE "stall"

\* the end of the 5-confirmation check_for_signal on the generator g5 that
\* holds all five confirmations
Emit5(g5, current_ltf_bar, l) ==
    Outcome(reset_confirmation_state(g5),
            [momentum_data |-> g5.confirmation_state.momentum]
               @@ build_signal(g5, current_ltf_bar, l.direction),
            l)

LocalsAfterMomentum(l, momentum, mtf_aligned) ==
    [l EXCEPT !.momentum = momentum,
              !.mtf_checked = MomentumConfirms(momentum, l.direction),
              !.mtf_aligned = MomentumConfirms(momentum, l.direction) /\ mtf_aligned]

AfterMomentum(c, current_ltf_bar, momentum, mtf_aligned, verdict) ==
    CASE verdict = "disqualify" ->
            Outcome(reset_confirmation_state(c.sg), None,
                    LocalsAfterMomentum(c.locals, momentum, mtf_aligned))
      [] verdict = "stall" ->
            Outcome(c.sg, None, LocalsAfterMomentum(c.locals, momentum, mtf_aligned))
      [] OTHER ->
            Emit5([c.sg EXCEPT !.confirmation_state.momentum =
                                  [mtf_aligned |-> TRUE] @@ momentum],
                  current_ltf_bar,
                  LocalsAfterMomentum(c.locals, momentum, mtf_aligned))

MomentumStage(c, current_ltf_bar, momentum, mtf_aligned) ==
    IF ~c.passed THEN Stalled(c)
    ELSE IF c.sg.confirmation_state.momentum # None
    THEN Emit5(c.sg, current_ltf_bar, c.locals)
    ELSE AfterMomentum(c, current_ltf_bar, momentum, mtf_aligned,
                       MomentumVerdict(momentum, mtf_aligned, c.locals.direction))

\* SignalGenerator.check_for_signal of confirmation5_momentum.py; momentum
\* and mtf_aligned are what the MomentumConfluence detector answers.
check_for_signal5(g, ltf, htf, momentum, mtf_aligned) ==
    IF Len(ltf) < MinLtfBars5 \/ Len(htf) < MinHtfBars
    THEN Outcome(g, None, NoLocals)
    ELSE MomentumStage(Confirmations(g, ltf, htf), Last(ltf), momentum, mtf_aligned)

(***************************************************************************)
(* The bars fed to the pipeline.  The history is a quiet range between 95  *)
(* and 105 with one swing high at 110 and one swing low at 90; each call   *)
(* appends one more bar.                                                   *)
(***************************************************************************)
Quiet == <<100, 105, 95, 100>>
SpikePosition == 11

\* spike is "none", "low" (an early sell-off to 40) or "high" (an early
\* rally to 160): it sets where the later bars sit in the structure range.
\* With "late_high" the last bar but one reaches 120: a high that becomes a
\* swing high once three bars have followed it.
HistoryShape(i, spike) ==
    CASE i = SpikePosition /\ spike = "low"  -> <<100, 105, 40, 100>>
      [] i = SpikePosition /\ spike = "high" -> <<100, 160, 95, 100>>
      [] i = HistoryLen - 9 -> <<100, 110, 95, 100>>
      [] i = HistoryLen - 5 /\ spike # "no_low" -> <<100, 105, 90, 100>>
      [] i = HistoryLen - 5 /\ spike = "no_low" -> Quiet
      [] i = HistoryLen - 1 /\ spike = "late_high" -> <<101, 120, 96, 99>>
      [] i = HistoryLen - 1 /\ spike # "late_high" -> <<101, 104, 96, 99>>
      [] i = HistoryLen     -> <<99, 105, 95, 101>>
      [] OTHER              -> Quiet

\* spike "no_open": the last bar of the history has no 'open' field
History(t0, spike) ==
    [i \in 1..HistoryLen |->
        LET b == HistoryShape(i, spike)
        IN  IF spike = "no_open" /\ i = HistoryLen
            THEN [time |-> t0 + i - 1, high |-> b[2], low |-> b[3], close |-> b[4]]
            ELSE Bar(t0 + i - 1, b[1], b[2], b[3], b[4])]

\* <<open, high, low, close>> of the bar a call may append
BarShapes ==
    { <<106, 112, 104, 108>>,   \* sweeps the swing high, closes just below it
      <<106, 112, 92, 93>>,     \* sweeps the swing high and collapses
      <<94, 96, 88, 92>>,       \* sweeps the swing low, closes just above it
      <<94, 108, 88, 107>>,     \* sweeps the swing low and rallies
      <<99, 105, 95, 101>>,     \* quiet up-close bar
      <<101, 105, 95, 99>> }    \* quiet down-close bar

HtfQuiet == <<100, 106, 94, 100>>
HtfBear == << <<103, 104, 96, 97>>, <<102, 103, 101, 101>>, <<101, 102, 100, 100>> >>
HtfBull == << <<97, 104, 96, 103>>, <<98, 99, 97, 99>>, <<99, 100, 98, 100>> >>

HtfSeries(shapes) ==
    [i \in 1..Len(shapes) |->
        Bar(15 * (i - 1), shapes[i][1], shapes[i][2], shapes[i][3], shapes[i][4])]

Quiets(n) == [i \in 1..n |-> HtfQuiet]

HtfBearish == HtfSeries(Quiets(MinHtfBars - 3) \o HtfBear)
HtfBullish == HtfSeries(Quiets(MinHtfBars - 3) \o HtfBull)
HtfBoth == HtfSeries(Quiets(MinHtfBars - 6) \o HtfBear \o HtfBull)

\* a bullish FVG 101-105 and, after it, a bearish FVG 110-114: a bar that
\* comes down from 112 and closes between them meets both
HtfCrossed ==
    HtfSeries(Quiets(MinHtfBars - 6)
              \o << <<102, 104, 101, 103>>, <<103, 104, 102, 104>>,
                     <<104, 105, 102, 105>>, <<113, 114, 112, 112>>,
                     <<112, 113, 111, 111>>, <<111, 112, 110, 110>> >>)
HtfTooShort == HtfSeries(Quiets(MinHtfBars - 4) \o HtfBear)

\* the minute the first bar of the history opens at: the calls start at the
\* last minute of the optimal window, or at the last minute of the
\* acceptable window
EarlyStart == OptimalEnd - HistoryLen - 1
LateStart == AcceptableEnd - HistoryLen

\* what VolatilityFilter.get_current_vix may return
VixReadings == {None, [value |-> 12], [value |-> 18], [value |-> MAX_VIX_LEVEL + 1]}

\* what MomentumConfluence.detect_momentum_confirmation may return
MomentumOutcomes ==
    { None,
      [direction |-> "SHORT", momentum_score |-> 80],
      [direction |-> "LONG", momentum_score |-> 80] }

(***************************************************************************)
(* The state machine                                                       *)
(***************************************************************************)
Setup(variant, filters_enabled, htf, t0, spike, window) ==
    [generator |-> NewSignalGenerator(variant, filters_enabled),
     htf |-> htf,
     ltf |-> Tail_n(History(t0, spike), window)]

\* a window too short for the structure filter's lookback
ShortWindow == StructureLookback \div 2

\* the generator constructed and the bars it is first polled on
Setups ==
    { Setup(4, FALSE, htf, EarlyStart, "none", HistoryLen) :
        htf \in {HtfBearish, HtfBullish, HtfBoth, HtfTooShort} }
    \cup { Setup(4, FALSE, HtfBearish, EarlyStart, "none", MinLtfBars - 1) }
    \cup { Setup(4, TRUE, HtfBearish, t0, spike, HistoryLen) :
        t0 \in {EarlyStart, LateStart}, spike \in {"none", "low"} }
    \cup { Setup(4, TRUE, HtfBullish, t0, "high", HistoryLen) :
        t0 \in {EarlyStart, LateStart} }
    \cup { Setup(5, FALSE, htf, EarlyStart, "none", HistoryLen) :
        htf \in {HtfBearish, HtfBullish} }
    \cup { Setup(4, TRUE, HtfBearish, EarlyStart, "none", ShortWindow) }
    \cup { Setup(4, FALSE, HtfBearish, EarlyStart, spike, HistoryLen) :
        spike \in {"no_open", "late_high"} }

Init ==
    /\ \E s \in Setups :
        /\ sg = s.generator
        /\ htf_bars = s.htf
        /\ ltf_bars = s.ltf
    /\ result = Unset
    /\ locals = NoLocals
    /\ calls = 0
    /\ phase = "poll"
    /\ fresh = Unset
    /\ fresh_result = Unset
    /\ probe = Unset

NextBar(shape) ==
    Bar(Last(ltf_bars).time + 1, shape[1], shape[2], shape[3], shape[4])

\* one more bar arrives and the 4-confirmation generator is polled
CheckForSignal ==
    /\ sg.variant = 4
    /\ calls < MaxCalls
    /\ \E shape \in BarShapes,
          vix \in (IF sg.filters_enabled THEN VixReadings ELSE {None}) :
        \E out \in {check_for_signal(sg, Append(ltf_bars, NextBar(shape)), htf_bars, vix)} :
            /\ ltf_bars' = Append(ltf_bars, NextBar(shape))
            /\ sg' = out.sg
            /\ result' = out.result
            /\ locals' = out.locals
    /\ calls' = calls + 1
    /\ UNCHANGED <<htf_bars, phase, fresh, fresh_result, probe>>

\* one more bar arrives and the 5-confirmation generator is polled
CheckForSignal5 ==
    /\ sg.variant = 5
    /\ calls < MaxCalls
    /\ \E shape \in BarShapes, momentum \in MomentumOutcomes,
          mtf_aligned \in BOOLEAN :
        \E out \in {check_for_signal5(sg, Append(ltf_bars, NextBar(shape)), htf_bars, momentum, mtf_aligned)} :
            /\ ltf_bars' = Append(ltf_bars, NextBar(shape))
            /\ sg' = out.sg
            /\ result' = out.result
            /\ locals' = out.locals
    /\ calls' = calls + 1
    /\ UNCHANGED <<htf_bars, phase, fresh, fresh_result, probe>>

\* the 4-confirmation generator is polled again, on the same bars, right
\* after a call that returned a Signal
CheckForSignalAgain ==
    /\ sg.variant = 4
    /\ phase = "poll"
    /\ result # None /\ result # Unset /\ result # Raised
    /\ \E vix \in (IF sg.filters_enabled THEN VixReadings ELSE {None}) :
        \E out \in {check_for_signal(sg, ltf_bars, htf_bars, vix)} :
            /\ sg' = out.sg
            /\ result' = out.result
            /\ locals' = out.locals
    /\ phase' = "again"
    /\ UNCHANGED <<ltf_bars, htf_bars, calls, fresh, fresh_result, probe>>

Next == CheckForSignal \/ CheckForSignal5 \/ CheckForSignalAgain

Spec == Init /\ [][Next]_vars

(***************************************************************************)
(* Repeating a run on a used generator: an earlier run on sg, then its     *)
(* confirmation state is reset and the same calls are fed to sg and to a   *)
(* freshly constructed generator.                                          *)
(***************************************************************************)
ReplayWindows == {HistoryLen, MinLtfBars - 1}

InitReplay ==
    /\ sg = NewSignalGenerator(4, FALSE)
    /\ htf_bars \in {HtfBearish, HtfBullish}
    /\ \E n \in ReplayWindows : ltf_bars = Tail_n(History(EarlyStart, "none"), n)
    /\ result = Unset
    /\ locals = NoLocals
    /\ calls = 0
    /\ phase = "earlier"
    /\ fresh = Unset
    /\ fresh_result = Unset
    /\ probe = Unset

\* a call of the earlier run
EarlierCall ==
    /\ phase = "earlier"
    /\ calls < MaxEarlierCalls
    /\ \E shape \in BarShapes :
        \E out \in {check_for_signal(sg, Append(ltf_bars, NextBar(shape)), htf_bars, None)} :
            /\ ltf_bars' = Append(ltf_bars, NextBar(shape))
            /\ sg' = out.sg
            /\ result' = out.result
            /\ locals' = out.locals
    /\ calls' = calls + 1
    /\ UNCHANGED <<htf_bars, phase, fresh, fresh_result, probe>>

\* the earlier run ends: _reset_confirmation_state() on the used generator,
\* a fresh generator is constructed, and the bars start over
Restart ==
    /\ phase = "earlier"
    /\ calls > 0
    /\ phase' = "replay"
    /\ sg' = reset_confirmation_state(sg)
    /\ fresh' = NewSignalGenerator(4, FALSE)
    /\ \E n \in ReplayWindows : ltf_bars' = Tail_n(History(EarlyStart, "none"), n)
    /\ result' = Unset
    /\ fresh_result' = Unset
    /\ locals' = NoLocals
    /\ calls' = 0
    /\ UNCHANGED <<htf_bars, probe>>

\* the same call is made on the used and on the fresh generator
ReplayCall ==
    /\ phase = "replay"
    /\ calls < MaxReplayCalls
    /\ \E shape \in BarShapes :
        \E out \in {check_for_signal(sg, Append(ltf_bars, NextBar(shape)), htf_bars, None)},
           fresh_out \in {check_for_signal(fresh, Append(ltf_bars, NextBar(shape)), htf_bars, None)} :
            /\ ltf_bars' = Append(ltf_bars, NextBar(shape))
            /\ sg' = out.sg
            /\ result' = out.result
            /\ locals' = out.locals
            /\ fresh' = fresh_out.sg
            /\ fresh_result' = fresh_out.result
    /\ calls' = calls + 1
    /\ UNCHANGED <<htf_bars, phase, probe>>

NextReplay == EarlierCall \/ Restart \/ ReplayCall

SpecReplay == InitReplay /\ [][NextReplay]_vars

(***************************************************************************)
(* PositionSizer.  Prices are counted in ticks; a point is TicksPerPoint   *)
(* ticks (calculate_position_size is called with its default min_tick).    *)
(* Dollar amounts are whole dollars.                                       *)
(***************************************************************************)
TicksPerPoint == 4
RiskPerTradePerMille == 5
InitialCapital == 50000

\* PositionSizer.__init__ and update_account_size
PositionSizer(account_size) ==
    [account_size |-> account_size,
     max_risk_dollars |-> (account_size * RiskPerTradePerMille) \div 1000]

\* self.mnq_brackets in insertion order: <<min_points, max_points, contracts>>
mnq_brackets ==
    << <<20, 24, 5>>, <<25, 30, 4>>, <<31, 40, 3>>, <<41, 60, 2>>, <<60, 120, 1>> >>

\* _get_mnq_contracts, on the risk counted in ticks
get_mnq_contracts(risk_ticks) ==
    LET Matches(b) == /\ b[1] * TicksPerPoint <= risk_ticks
                      /\ risk_ticks <= b[2] * TicksPerPoint
        matching == SelectSeq(mnq_brackets, Matches)
    IN  IF matching # <<>> THEN matching[1][3] ELSE 1

\* a chooser that ignores the bracket table
contracts_by_risk_only(sizer, symbol, risk_ticks, risk_per_contract) ==
    IF sizer.max_risk_dollars \div risk_per_contract > 1
    THEN sizer.max_risk_dollars \div risk_per_contract ELSE 1

\* `contracts' of calculate_position_size (lines 61-72), for a non-zero
\* risk_per_contract
contracts_for(sizer, symbol, risk_ticks, risk_per_contract) ==
    LET contracts_by_risk == sizer.max_risk_dollars \div risk_per_contract
        contracts == IF symbol = "MNQ"
                     THEN IF contracts_by_risk < get_mnq_contracts(risk_ticks)
                          THEN contracts_by_risk ELSE get_mnq_contracts(risk_ticks)
                     ELSE contracts_by_risk
    IN  IF contracts > 1 THEN contracts ELSE 1

\* calculate_position_size: the returned dict, or Raised for the
\* ZeroDivisionError of line 61.  risk_points is kept as risk_ticks
\* (risk_points = risk_ticks / TicksPerPoint); risk_percentage is left out.
calculate_position_size(sizer, symbol, entry, stop, tick_value) ==
    IF Abs(entry - stop) * tick_value = 0 THEN Raised
    ELSE [symbol |-> symbol,
          contracts |-> contracts_for(sizer, symbol, Abs(entry - stop),
                                      Abs(entry - stop) * tick_value),
          entry |-> entry,
          stop |-> stop,
          risk_ticks |-> Abs(entry - stop),
          risk_per_contract |-> Abs(entry - stop) * tick_value,
          total_risk_dollars |->
              contracts_for(sizer, symbol, Abs(entry - stop),
                            Abs(entry - stop) * tick_value)
                * (Abs(entry - stop) * tick_value),
          tick_value |-> tick_value]

\* a validation without the risk limit
validate_position_unlimited(sizer, position_size_data) ==
    ~(position_size_data.contracts < 1)

\* validate_position (the limit is max_risk_dollars * 1.1)
validate_position(sizer, position_size_data) ==
    /\ ~(10 * position_size_data.total_risk_dollars > 11 * sizer.max_risk_dollars)
    /\ ~(position_size_data.contracts < 1)

(***************************************************************************)
(* Backtester.simulate_trade                                               *)
(***************************************************************************)
MaxBarsToCheck == 100

StopHit(direction, bar, stop) ==
    IF direction = "SHORT" THEN bar.high >= stop ELSE bar.low <= stop

TargetHit(direction, bar, target) ==
    IF direction = "SHORT" THEN bar.low <= target ELSE bar.high >= target

\* the dict returned from inside the loop, at bar k (1-based): the stop is
\* tested first.  pnl is the fraction num / den of a dollar amount.
TradeAt(signal, position_size, bar, k) ==
    IF StopHit(signal.direction, bar, signal.stop_loss)
    THEN [time |-> signal.time, direction |-> signal.direction,
          entry |-> signal.entry, exit |-> signal.stop_loss,
          pnl |-> [num |-> 0 - position_size.total_risk_dollars, den |-> 1],
          result |-> "LOSS", contracts |-> position_size.contracts,
          bars_held |-> k]
    ELSE [time |-> signal.time, direction |-> signal.direction,
          entry |-> signal.entry, exit |-> signal.target,
          pnl |-> [num |-> position_size.contracts
                             * (IF signal.direction = "SHORT"
                                THEN signal.entry - signal.target
                                ELSE signal.target - signal.entry)
                             * position_size.tick_value,
                   den |-> TicksPerPoint],
          result |-> "WIN", contracts |-> position_size.contracts,
          bars_held |-> k]

\* a simulation that tests the target before the stop
simulate_trade_target_first(signal, position_size, future_bars) ==
    LET max_bars_to_check == IF Len(future_bars) < MaxBarsToCheck
                             THEN Len(future_bars) ELSE MaxBarsToCheck
        Hit(k) == \/ StopHit(signal.direction, future_bars[k], signal.stop_loss)
                  \/ TargetHit(signal.direction, future_bars[k], signal.target)
        hits == {k \in 1..max_bars_to_check : Hit(k)}
        first == CHOOSE k \in hits : \A j \in hits : k <= j
    IN  IF hits = {}
        THEN [time |-> signal.time, direction |-> signal.direction,
              entry |-> signal.entry, exit |-> signal.entry,
              pnl |-> [num |-> 0, den |-> 1],
              result |-> "BREAKEVEN", contracts |-> position_size.contracts,
              bars_held |-> max_bars_to_check]
        ELSE IF TargetHit(signal.direction, future_bars[first], signal.target)
        THEN [TradeAt(signal, position_size, future_bars[first], first)
                 EXCEPT !.result = "WIN", !.exit = signal.target,
                        !.pnl = [num |-> 1, den |-> 1]]
        ELSE TradeAt(signal, position_size, future_bars[first], first)

\* simulate_trade
simulate_trade(signal, position_size, future_bars) ==
    LET max_bars_to_check == IF Len(future_bars) < MaxBarsToCheck
                             THEN Len(future_bars) ELSE MaxBarsToCheck
        Hit(k) == \/ StopHit(signal.direction, future_bars[k], signal.stop_loss)
                  \/ TargetHit(signal.direction, future_bars[k], signal.target)
        hits == {k \in 1..max_bars_to_check : Hit(k)}
        first == CHOOSE k \in hits : \A j \in hits : k <= j
    IN  IF hits = {}
        THEN [time |-> signal.time, direction |-> signal.direction,
              entry |-> signal.entry, exit |-> signal.entry,
              pnl |-> [num |-> 0, den |-> 1],
              result |-> "BREAKEVEN", contracts |-> position_size.contracts,
              bars_held |-> max_bars_to_check]
        ELSE TradeAt(signal, position_size, future_bars[first], first)

(***************************************************************************)
(* The trade leg of run_backtest (lines 220-243) on one Signal: the Signal *)
(* is built by _build_signal from a held sweep, sized, validated and       *)
(* simulated over the bars from the bar of the Signal on.                  *)
(***************************************************************************)
INSTRUMENTS == [MNQ |-> [tick_value |-> 2], ES |-> [tick_value |-> 50]]

\* distances between entry and stop, in ticks: zero, the edges of the
\* brackets, and the distances at which the risk budget buys one contract less
RiskTicks ==
    {0, 1, 2, 5, 6, 25, 62, 63, 79, 80, 96, 97, 99, 100, 120, 121, 123, 124,
     125, 130, 137, 138, 160, 161, 164, 240, 241, 480, 481}

\* a generator holding a sweep of the swing high 110 (SHORT) or of the
\* swing low 90 (LONG)
GeneratorHolding(direction) ==
    [NewSignalGenerator(4, FALSE) EXCEPT
        !.sweep_detector =
            [swing_highs |-> <<[index |-> 70, time |-> 70, price |-> 110,
                                type |-> "swing_high"]>>,
             swing_lows |-> <<[index |-> 74, time |-> 74, price |-> 90,
                               type |-> "swing_low"]>>],
        !.confirmation_state.sweep =
            IF direction = "SHORT"
            THEN [type |-> "buyside_sweep", swing_level |-> 110, sweep_high |-> 112,
                  close |-> 108, time |-> 81, direction |-> "SHORT"]
            ELSE [type |-> "sellside_sweep", swing_level |-> 90, sweep_low |-> 88,
                  close |-> 92, time |-> 81, direction |-> "LONG"]]

\* the Signal of a bar that closes risk_ticks away from the stop
SignalAtRisk(direction, risk_ticks) ==
    build_signal(GeneratorHolding(direction),
                 Bar(82, 100, 100, 100,
                     IF direction = "SHORT"
                     THEN 110 + STOP_LOSS_BUFFER_TICKS * min_tick - risk_ticks
                     ELSE 90 - STOP_LOSS_BUFFER_TICKS * min_tick + risk_ticks),
                 direction)

FutureLen == 102

\* a bar between the levels 87/90 and 110/113 that reaches the stop, the
\* target, both or neither
TouchBar(direction, kind, t) ==
    LET top == IF direction = "SHORT" THEN "stop" ELSE "target"
        bottom == IF direction = "SHORT" THEN "target" ELSE "stop"
        level == [stop |-> IF direction = "SHORT" THEN 113 ELSE 87,
                  target |-> IF direction = "SHORT" THEN 90 ELSE 110]
    IN  Bar(t, 100,
            IF kind \in {top, "both"} THEN level[top] ELSE level[top] - 1,
            IF kind \in {bottom, "both"} THEN level[bottom] ELSE level[bottom] + 1,
            100)

\* ltf_bars[i:], which starts with the bar of the Signal (time 82): quiet
\* bars, except a bar of kind k1 at position p and a bar of kind k2 right
\* after it
FutureBars(direction, p, k1, k2) ==
    [i \in 1..FutureLen |->
        TouchBar(direction,
                 IF i = p THEN k1 ELSE IF i = p + 1 THEN k2 ELSE "quiet",
                 81 + i)]

InitTrade ==
    /\ \E direction \in {"SHORT", "LONG"}, risk_ticks \in RiskTicks,
          symbol \in DOMAIN INSTRUMENTS, account_size \in {InitialCapital, 10 * InitialCapital} :
        \E future_bars \in
              {<<>>} \cup { FutureBars(direction, p, k1, k2) :
                               p \in {1, MaxBarsToCheck, MaxBarsToCheck + 1},
                               k1 \in {"quiet", "stop", "target", "both"},
                               k2 \in {"quiet", "stop", "target", "both"} } :
            probe = [sizer |-> PositionSizer(account_size),
                     symbol |-> symbol,
                     signal |-> SignalAtRisk(direction, risk_ticks),
                     future_bars |-> future_bars,
                     position_size |-> Unset,
                     trade |-> Unset]
    /\ sg = NewSignalGenerator(4, FALSE)
    /\ ltf_bars = <<>>
    /\ htf_bars = <<>>
    /\ result = Unset
    /\ locals = NoLocals
    /\ calls = 0
    /\ phase = "trade"
    /\ fresh = Unset
    /\ fresh_result = Unset

\* position_size = self.position_sizer.calculate_position_size(...)
CalculatePositionSize ==
    /\ phase = "trade"
    /\ probe.position_size = Unset
    /\ probe' = [probe EXCEPT !.position_size =
                    calculate_position_size(probe.sizer, probe.symbol,
                                            probe.signal.entry, probe.signal.stop_loss,
                                            INSTRUMENTS[probe.symbol].tick_value)]
    /\ UNCHANGED <<ltf_bars, htf_bars, sg, result, locals, calls, phase, fresh,
                   fresh_result>>

\* result = self.simulate_trade(signal, position_size, ltf_bars[i:]), reached
\* when the sizing returned and validate_position accepts it
SimulateTrade ==
    /\ phase = "trade"
    /\ probe.trade = Unset
    /\ probe.position_size # Unset
    /\ probe.position_size # Raised
    /\ validate_position(probe.sizer, probe.position_size)
    /\ probe' = [probe EXCEPT !.trade =
                    simulate_trade(probe.signal, probe.position_size,
                                   probe.future_bars)]
    /\ UNCHANGED <<ltf_bars, htf_bars, sg, result, locals, calls, phase, fresh,
                   fresh_result>>

NextTrade == CalculatePositionSize \/ SimulateTrade

SpecTrade == InitTrade /\ [][NextTrade]_vars

(***************************************************************************)
(* LiquiditySweepDetector on its own: a new detector, a window of previous *)
(* bars and a current bar.                                                 *)
(***************************************************************************)
\* a window of n bars with highs 100 and lows 95, except a high of 110 at
\* position p, a high of h2 at p + d, a low of 90 at q and, two bars later,
\* a low of 90 (when h2 = 110) or 93
SwingWindow(n, p, d, h2, q) ==
    [i \in 1..n |->
        Bar(i, 98,
            IF i = p THEN 110 ELSE IF i = p + d THEN h2 ELSE 100,
            IF i = q THEN 90
            ELSE IF i = q + 2 THEN (IF h2 = 110 THEN 90 ELSE 93) ELSE 95,
            98)]

\* current bars <<high, low, close>>: beyond both levels, beyond one, beyond
\* the high without closing back, on the levels, beyond 105 and 93
SweepBars ==
    { <<111, 89, 100>>, <<111, 95, 100>>, <<100, 89, 95>>, <<111, 89, 110>>,
      <<110, 90, 100>>, <<106, 92, 94>> }

InitSwings ==
    /\ \E n \in {SwingLookback - 1, SwingLookback, SwingLookback + 3},
          d \in {1, MIN_SWING_CANDLES, MIN_SWING_CANDLES + 1},
          h2 \in {105, 110}, b \in SweepBars :
        \E p \in {1, MIN_SWING_CANDLES, MIN_SWING_CANDLES + 1, MIN_SWING_CANDLES + 2,
                  n - MIN_SWING_CANDLES - 1, n - MIN_SWING_CANDLES,
                  n - MIN_SWING_CANDLES + 1, n},
           q \in {MIN_SWING_CANDLES, MIN_SWING_CANDLES + 1, n - MIN_SWING_CANDLES} :
            probe = [detector |-> [swing_highs |-> <<>>, swing_lows |-> <<>>],
                     previous_bars |-> SwingWindow(n, p, d, h2, q),
                     current_bar |-> Bar(n + 1, 98, b[1], b[2], b[3]),
                     swings |-> Unset,
                     sweep |-> Unset]
    /\ sg = NewSignalGenerator(4, FALSE)
    /\ ltf_bars = <<>>
    /\ htf_bars = <<>>
    /\ result = Unset
    /\ locals = NoLocals
    /\ calls = 0
    /\ phase = "swings"
    /\ fresh = Unset
    /\ fresh_result = Unset

\* swing_highs, swing_lows = detector.identify_swings(previous_bars)
IdentifySwings ==
    /\ phase = "swings"
    /\ probe.swings = Unset
    /\ probe.sweep = Unset
    /\ probe' = [probe EXCEPT
                    !.swings = swings_returned(probe.previous_bars),
                    !.detector = identify_swings(probe.detector, probe.previous_bars)]
    /\ UNCHANGED <<ltf_bars, htf_bars, sg, result, locals, calls, phase, fresh,
                   fresh_result>>

\* sweep = detector.detect_sweep(current_bar, previous_bars, min_tick)
DetectSweep ==
    /\ phase = "swings"
    /\ probe.sweep = Unset
    /\ \E out \in {detect_sweep(probe.detector, probe.current_bar, probe.previous_bars)} :
          probe' = [probe EXCEPT !.sweep = out.sweep, !.detector = out.det]
    /\ UNCHANGED <<ltf_bars, htf_bars, sg, result, locals, calls, phase, fresh,
                   fresh_result>>

NextSwings == IdentifySwings \/ DetectSweep

SpecSwings == InitSwings /\ [][NextSwings]_vars

(***************************************************************************)
(* HTFFVGDetector.check_delivery called again and again on one list of     *)
(* FVGs, as identify_fvgs returns it or after it has aged.                 *)
(***************************************************************************)
MaxDeliveryCalls == 3

InitDelivery ==
    /\ \E htf \in {HtfBearish, HtfBullish, HtfBoth},
          age \in {0, MAX_HTF_FVG_AGE - 1} :
        probe = [fvgs |-> [k \in 1..Len(identify_fvgs(htf)) |->
                              [identify_fvgs(htf)[k] EXCEPT !.age = age]],
                 current_bar |-> Unset,
                 delivery |-> Unset,
                 calls |-> 0]
    /\ sg = NewSignalGenerator(4, FALSE)
    /\ ltf_bars = <<>>
    /\ htf_bars = <<>>
    /\ result = Unset
    /\ locals = NoLocals
    /\ calls = 0
    /\ phase = "delivery"
    /\ fresh = Unset
    /\ fresh_result = Unset

\* delivery = detector.check_delivery(fvgs, current_bar)
CheckDelivery ==
    /\ phase = "delivery"
    /\ probe.calls < MaxDeliveryCalls
    /\ \E shape \in BarShapes :
        \E bar \in {Bar(probe.calls, shape[1], shape[2], shape[3], shape[4])} :
            \E out \in {check_delivery(probe.fvgs, bar)} :
                probe' = [fvgs |-> out.fvgs, current_bar |-> bar,
                          delivery |-> out.delivery, calls |-> probe.calls + 1]
    /\ UNCHANGED <<ltf_bars, htf_bars, sg, result, locals, calls, phase, fresh,
                   fresh_result>>

SpecDelivery == InitDelivery /\ [][CheckDelivery]_vars

(***************************************************************************)
(* The detectors called one at a time: HTFFVGDetector.update_fvgs on a      *)
(* detector that holds an earlier active set, CISDDetector.detect_cisd and  *)
(* iFVGDetector.detect_ifvg_inversion on windows of bars.                   *)
(***************************************************************************)
\* lead candles against the run, then run candles of one direction whose
\* opens move by one a bar, then the sweep bar, then `after' bars; the last
\* bar closes at last_close
CisdWindow(lead, run, up, after, last_close) ==
    [i \in 1..(lead + run + 1 + after) |->
        IF i = lead + run + 1 + after THEN Bar(i - 1, 100, 126, 94, last_close)
        ELSE IF i = lead + run + 1 THEN Bar(i - 1, 100, 126, 94, 100)
        ELSE IF (i <= lead) = up THEN Bar(i - 1, 120 - i, 121 - i, 117 - i, 118 - i)
        ELSE Bar(i - 1, 100 + i, 103 + i, 99 + i, 102 + i)]

InitDetectors ==
    /\ \E htf \in {HtfBearish, HtfBoth}, age \in {0, 2}, filled \in BOOLEAN :
        probe = [detector |->
                    [active_fvgs |->
                        [k \in 1..Len(identify_fvgs(htf)) |->
                            [identify_fvgs(htf)[k] EXCEPT !.age = age,
                                                          !.filled = filled]]],
                 op |-> "none",
                 bars |-> <<>>,
                 direction |-> "none",
                 sweep_data |-> Unset,
                 replaced |-> <<>>,
                 out |-> Unset]
    /\ sg = NewSignalGenerator(4, FALSE)
    /\ ltf_bars = <<>>
    /\ htf_bars = <<>>
    /\ result = Unset
    /\ locals = NoLocals
    /\ calls = 0
    /\ phase = "detectors"
    /\ fresh = Unset
    /\ fresh_result = Unset

\* detector.update_fvgs(bars, min_tick)
UpdateFvgs ==
    /\ phase = "detectors"
    /\ \E bars \in {HtfBearish, HtfBoth,
                     HtfSeries(HtfBear \o Quiets(FvgRescanWindow)),
                     HtfSeries(HtfBull \o Quiets(FvgRescanWindow - 2)),
                     HtfSeries(Quiets(FvgRescanWindow - 3) \o HtfBull)} :
        probe' = [detector |-> [active_fvgs |-> update_fvgs(bars)],
                  op |-> "update_fvgs",
                  bars |-> bars,
                  direction |-> "none",
                  sweep_data |-> Unset,
                  replaced |-> probe.detector.active_fvgs,
                  out |-> None]
    /\ UNCHANGED <<ltf_bars, htf_bars, sg, result, locals, calls, phase, fresh,
                   fresh_result>>

\* cisd = detector.detect_cisd(bars, sweep_data, direction)
DetectCisd ==
    /\ phase = "detectors"
    /\ probe.op = "none"
    /\ \E lead \in {0, 2}, run \in {0, 3, 6, 9, 10, 12}, up \in BOOLEAN,
          after \in {0, 1}, last_close \in {95, 101, 103, 117, 119, 125},
          direction \in {"SHORT", "LONG"} :
        \E bars \in {CisdWindow(lead, run, up, after, last_close)} :
            probe' = [probe EXCEPT
                        !.op = "detect_cisd",
                        !.bars = bars,
                        !.direction = direction,
                        !.sweep_data = [time |-> lead + run],
                        !.replaced = <<>>,
                        !.out = detect_cisd(bars, [time |-> lead + run], direction)]
    /\ UNCHANGED <<ltf_bars, htf_bars, sg, result, locals, calls, phase, fresh,
                   fresh_result>>

\* inversion = detector.detect_ifvg_inversion(bars, direction, min_tick)
DetectIfvg ==
    /\ phase = "detectors"
    /\ probe.op = "none"
    /\ \E shapes \in [1..4 -> {<<100, 105, 95, 100>>, <<101, 104, 96, 99>>,
                                <<106, 112, 92, 93>>, <<94, 108, 88, 107>>}],
          earlier \in {<<>>, << <<101, 104, 96, 99>> >>,
                       << <<100, 105, 95, 100>>, <<101, 104, 96, 99>> >>},
          direction \in {"SHORT", "LONG"} :
        \E bars \in {HtfSeries(earlier \o shapes)} :
            probe' = [probe EXCEPT
                        !.op = "detect_ifvg_inversion",
                        !.bars = bars,
                        !.direction = direction,
                        !.sweep_data = Unset,
                        !.replaced = <<>>,
                        !.out = detect_ifvg_inversion(bars, direction)]
    /\ UNCHANGED <<ltf_bars, htf_bars, sg, result, locals, calls, phase, fresh,
                   fresh_result>>

NextDetectors == UpdateFvgs \/ DetectCisd \/ DetectIfvg

SpecDetectors == InitDetectors /\ [][NextDetectors]_vars

(***************************************************************************)
(* A drawn-out episode: one generator polled on a sweep, on quiet bars and *)
(* on the bars that complete the remaining confirmations, or on the bars   *)
(* of a rally that starts above the swing high.                            *)
(***************************************************************************)
MaxEpisodeCalls == 7

\* <<open, high, low, close>>: the sweep of the swing high; a quiet up-close
\* bar; a narrower bar that closes under the bearish FVG; a bar that closes
\* under the low of the bar three bars before it, without a new sweep
EpisodeShapes ==
    { <<106, 112, 104, 108>>, <<99, 105, 95, 101>>, <<101, 104, 96, 99>>,
      <<101, 105, 92, 93>> }

\* <<open, high, low, close>> of a rally above the swing high: a down-close
\* bar and an up-close bar above it, the bar that sweeps the swing high from
\* there and closes under the bearish FVG, a bar that closes under the low
\* of the first
RallyShapes ==
    { <<117, 118, 115, 116>>, <<117, 119, 116, 118>>, <<118, 121, 95, 99>>,
      <<118, 119, 113, 114>> }

InitEpisode ==
    /\ sg = NewSignalGenerator(4, FALSE)
    /\ phase \in {"episode", "rally", "crossed"}
    /\ htf_bars = IF phase = "crossed" THEN HtfCrossed ELSE HtfBearish
    /\ ltf_bars \in {History(EarlyStart, "none"), History(EarlyStart, "no_low")}
    /\ result = Unset
    /\ locals = NoLocals
    /\ calls = 0
    /\ fresh = Unset
    /\ fresh_result = Unset
    /\ probe = Unset

\* one more bar arrives and the generator is polled
CheckForSignalEpisode ==
    /\ phase \in {"episode", "rally", "crossed"}
    /\ calls < MaxEpisodeCalls
    /\ \E shape \in IF phase = "rally" THEN RallyShapes ELSE EpisodeShapes :
        \E out \in {check_for_signal(sg, Append(ltf_bars, NextBar(shape)), htf_bars, None)} :
            /\ ltf_bars' = Append(ltf_bars, NextBar(shape))
            /\ sg' = out.sg
            /\ result' = out.result
            /\ locals' = out.locals
    /\ calls' = calls + 1
    /\ UNCHANGED <<htf_bars, phase, fresh, fresh_result, probe>>

\* the trade leg of run_backtest (lines 220-235) for the Signal the call has
\* just returned: the position is sized and validated and the trade is
\* simulated over ltf_bars[i:], the bar of the Signal and the bars after it
SettleTrade ==
    /\ phase \in {"episode", "rally", "crossed"}
    /\ result # None /\ result # Unset /\ result # Raised
    /\ \E later \in {<<>>} \cup {<<NextBar(shape)>> :
                           shape \in IF phase = "rally" THEN RallyShapes
                                     ELSE EpisodeShapes} :
        \E position_size \in
              {calculate_position_size(PositionSizer(InitialCapital), "MNQ",
                                       result.entry, result.stop_loss,
                                       INSTRUMENTS["MNQ"].tick_value)} :
            /\ position_size # Raised
            /\ validate_position(PositionSizer(InitialCapital), position_size)
            /\ probe' = [signal |-> result,
                         position_size |-> position_size,
                         future_bars |-> <<Last(ltf_bars)>> \o later,
                         trade |-> simulate_trade(result, position_size,
                                                  <<Last(ltf_bars)>> \o later)]
    /\ phase' = "settled"
    /\ UNCHANGED <<ltf_bars, htf_bars, sg, result, locals, calls, fresh,
                   fresh_result>>

SpecEpisode == InitEpisode /\ [][CheckForSignalEpisode \/ SettleTrade]_vars

(***************************************************************************)
(* The replay loop of Backtester.run_backtest: the LTF bars are aggregated *)
(* once, before the loop, and each step hands the pipeline a prefix of     *)
(* both series.                                                            *)
(***************************************************************************)
BacktestStart == 100
HtfPeriods == 3

\* an aggregation whose chunks take in the first bar of the next chunk
aggregate_to_timeframe_overlapping(bars, periods) ==
    IF Len(bars) < periods THEN bars
    ELSE [j \in 1..((Len(bars) + periods - 1) \div periods) |->
            LET first == periods * (j - 1) + 1
                last == IF first + periods <= Len(bars)
                        THEN first + periods ELSE Len(bars)
            IN  Bar(bars[first].time, bars[first].open,
                    SeqMax([k \in 1..(last - first + 1) |-> bars[first + k - 1].high]),
                    SeqMin([k \in 1..(last - first + 1) |-> bars[first + k - 1].low]),
                    bars[last].close)]

\* aggregate_to_timeframe (the volume is left out)
aggregate_to_timeframe(bars, periods) ==
    IF Len(bars) < periods THEN bars
    ELSE [j \in 1..((Len(bars) + periods - 1) \div periods) |->
            LET first == periods * (j - 1) + 1
                last == IF first + periods - 1 <= Len(bars)
                        THEN first + periods - 1 ELSE Len(bars)
            IN  Bar(bars[first].time, bars[first].open,
                    SeqMax([k \in 1..(last - first + 1) |-> bars[first + k - 1].high]),
                    SeqMin([k \in 1..(last - first + 1) |-> bars[first + k - 1].low]),
                    bars[last].close)]

\* prepare_bars: n bars that rise or fall by one a bar, so that every bar
\* has a high and a low of its own
BacktestBars(rising, n) ==
    [k \in 1..n |-> IF rising THEN Bar(k - 1, 100 + k, 102 + k, 99 + k, 101 + k)
                    ELSE Bar(k - 1, 300 - k, 302 - k, 299 - k, 301 - k)]

\* probe.i is the index of the next step, probe.current that of the last one
InitBacktest ==
    /\ \E rising \in BOOLEAN, n \in {101, 104, 107, 110, 113, 116} :
        /\ ltf_bars = BacktestBars(rising, n)
        /\ probe = [htf_bars_15m |-> aggregate_to_timeframe(BacktestBars(rising, n),
                                                            HtfPeriods),
                    i |-> BacktestStart,
                    current |-> Unset]
    /\ sg = NewSignalGenerator(4, FALSE)
    /\ htf_bars = <<>>
    /\ result = Unset
    /\ locals = NoLocals
    /\ calls = 0
    /\ phase = "backtest"
    /\ fresh = Unset
    /\ fresh_result = Unset

\* one pass of `for i in range(100, len(ltf_bars))' (lines 201-218);
\* htf_bars keeps the HTF bars handed to check_for_signal
BacktestStep ==
    /\ phase = "backtest"
    /\ probe.i < Len(ltf_bars)
    /\ \E current_htf_15m \in
            {IF probe.htf_bars_15m # <<>>
             THEN SubSeq(probe.htf_bars_15m, 1,
                         IF (probe.i + 1) \div HtfPeriods < Len(probe.htf_bars_15m)
                         THEN (probe.i + 1) \div HtfPeriods
                         ELSE Len(probe.htf_bars_15m))
             ELSE SubSeq(ltf_bars, 1, probe.i + 1)} :
        \E out \in {check_for_signal(sg, Tail_n(SubSeq(ltf_bars, 1, probe.i + 1), 200),
                                      Tail_n(current_htf_15m, 50), None)} :
            /\ htf_bars' = Tail_n(current_htf_15m, 50)
            /\ sg' = out.sg
            /\ result' = out.result
            /\ locals' = out.locals
    /\ probe' = [probe EXCEPT !.i = @ + 1, !.current = probe.i]
    /\ calls' = calls + 1
    /\ UNCHANGED <<ltf_bars, phase, fresh, fresh_result>>

SpecBacktest == InitBacktest /\ [][BacktestStep]_vars

(***************************************************************************)
(* The live loop of ConfirmationModelSystem.  A day is cut into the minute *)
(* 0 before the open, the minutes 1..SessionMinutes of the trading session *)
(* (09:30 to 11:00) and the minute SessionMinutes + 1 after the close.     *)
(* probe holds the system's fields, the loop's last_check_time, the clock, *)
(* and what the last pass did with its Signal (alert).                     *)
(***************************************************************************)
MAX_TRADES_PER_DAY == 2
MIN_RISK_REWARD == 2
SessionMinutes == 3
MaxDays == 2

\* a handler without the daily limit
handle_signal_unlimited(live, signal, symbol, success) ==
    LET position_size == calculate_position_size(PositionSizer(InitialCapital), symbol,
                                                 signal.entry, signal.stop_loss,
                                                 INSTRUMENTS[symbol].tick_value)
    IN  IF position_size = Raised THEN [live EXCEPT !.alert = "raised"]
        ELSE IF ~validate_position(PositionSizer(InitialCapital), position_size)
        THEN [live EXCEPT !.alert = "invalid"]
        ELSE IF signal.risk_reward_ratio.num
                    < MIN_RISK_REWARD * signal.risk_reward_ratio.den
        THEN [live EXCEPT !.alert = "low_rr"]
        ELSE IF success
        THEN [live EXCEPT !.signals_today = Append(@, signal),
                          !.trades_today = @ + 1,
                          !.alert = "sent"]
        ELSE [live EXCEPT !.alert = "failed"]

\* handle_signal; success is what send_signal_alert returns.  The
\* ZeroDivisionError of calculate_position_size leaves through the loop's
\* `except Exception' (alert "raised").
handle_signal(live, signal, symbol, success) ==
    LET position_size == calculate_position_size(PositionSizer(InitialCapital), symbol,
                                                 signal.entry, signal.stop_loss,
                                                 INSTRUMENTS[symbol].tick_value)
    IN  IF live.trades_today >= MAX_TRADES_PER_DAY
        THEN [live EXCEPT !.alert = "max_trades"]
        ELSE IF position_size = Raised THEN [live EXCEPT !.alert = "raised"]
        ELSE IF ~validate_position(PositionSizer(InitialCapital), position_size)
        THEN [live EXCEPT !.alert = "invalid"]
        ELSE IF signal.risk_reward_ratio.num
                    < MIN_RISK_REWARD * signal.risk_reward_ratio.den
        THEN [live EXCEPT !.alert = "low_rr"]
        ELSE IF success
        THEN [live EXCEPT !.signals_today = Append(@, signal),
                          !.trades_today = @ + 1,
                          !.alert = "sent"]
        ELSE [live EXCEPT !.alert = "failed"]

\* what check_for_signal may return on the bars of the data feed
LiveSignals ==
    {SignalAtRisk(direction, risk_ticks) :
        direction \in {"SHORT", "LONG"}, risk_ticks \in {0, 5, 6, 25}}

\* __init__ and the start of monitoring_loop, at any time of the first day
InitLive ==
    /\ \E symbol \in DOMAIN INSTRUMENTS, minute \in 0..(SessionMinutes + 1) :
        probe = [symbol |-> symbol,
                 now |-> [day |-> 1, minute |-> minute],
                 last_check_time |-> None,
                 is_trading |-> FALSE,
                 signals_today |-> <<>>,
                 trades_today |-> 0,
                 alert |-> "none"]
    /\ sg = NewSignalGenerator(4, FALSE)
    /\ ltf_bars = <<>>
    /\ htf_bars = <<>>
    /\ result = Unset
    /\ locals = NoLocals
    /\ calls = 0
    /\ phase = "live"
    /\ fresh = Unset
    /\ fresh_result = Unset

\* one pass of the `while True' of monitoring_loop, at a time now that is the
\* minute of the last pass or the next one; result is the Signal
\* check_for_signal returned in this pass, if it was called
MonitoringLoop ==
    /\ phase = "live"
    /\ \E now \in {probe.now,
                    IF probe.now.minute <= SessionMinutes
                    THEN [day |-> probe.now.day, minute |-> probe.now.minute + 1]
                    ELSE [day |-> probe.now.day + 1, minute |-> 0]} :
        /\ now.day <= MaxDays
        /\ \/ /\ 1 <= now.minute /\ now.minute <= SessionMinutes
              /\ \E latest_bars \in BOOLEAN :
                    IF latest_bars /\ probe.last_check_time # now
                    THEN \E signal \in {None} \cup LiveSignals, success \in BOOLEAN :
                            /\ result' = signal
                            /\ probe' =
                                 IF signal # None
                                 THEN handle_signal([probe EXCEPT !.now = now,
                                                                  !.is_trading = TRUE,
                                                                  !.last_check_time = now],
                                                    signal, probe.symbol, success)
                                 ELSE [probe EXCEPT !.now = now, !.is_trading = TRUE,
                                                    !.last_check_time = now,
                                                    !.alert = "none"]
                    ELSE /\ result' = Unset
                         /\ probe' = [probe EXCEPT !.now = now, !.is_trading = TRUE,
                                                   !.alert = "none"]
           \/ /\ now.minute > SessionMinutes
              /\ result' = Unset
              /\ probe' = IF probe.is_trading
                          THEN [probe EXCEPT !.now = now, !.is_trading = FALSE,
                                             !.signals_today = <<>>,
                                             !.trades_today = 0,
                                             !.alert = "none"]
                          ELSE [probe EXCEPT !.now = now, !.alert = "none"]
           \/ /\ now.minute < 1
              /\ result' = Unset
              /\ probe' = [probe EXCEPT !.now = now, !.alert = "none"]
    /\ UNCHANGED <<ltf_bars, htf_bars, sg, locals, calls, phase, fresh, fresh_result>>

SpecLive == InitLive /\ [][MonitoringLoop]_vars

(***************************************************************************)
(* TrailingStopManager.calculate_stop on its own: a Signal and a current   *)
(* price.  r_multiple, stop_loss and profit_locked are fractions num/den.  *)
(***************************************************************************)
\* TrailingStopManager.__init__: 1.0, 1.5 and 0.5
TrailingStopManager ==
    [breakeven_threshold |-> [num |-> 1, den |-> 1],
     trail_start_threshold |-> [num |-> 3, den |-> 2],
     trail_distance |-> [num |-> 1, den |-> 2]]

\* calculate_stop; profit_to_lock = (r_multiple - trail_distance) * risk is
\* current_pl - risk * trail_distance when risk > 0
calculate_stop(self, signal, current_price) ==
    LET current_pl == IF signal.direction = "SHORT"
                      THEN signal.entry - current_price
                      ELSE current_price - signal.entry
        r_multiple == IF signal.risk > 0 THEN [num |-> current_pl, den |-> signal.risk]
                      ELSE [num |-> 0, den |-> 1]
        profit_to_lock ==
            [num |-> r_multiple.num * self.trail_distance.den * signal.risk
                        - self.trail_distance.num * r_multiple.den * signal.risk,
             den |-> r_multiple.den * self.trail_distance.den]
    IN  IF r_multiple.num * self.breakeven_threshold.den
                >= self.breakeven_threshold.num * r_multiple.den
        THEN [stop_loss |-> [num |-> signal.entry, den |-> 1],
              reason |-> "BREAKEVEN",
              profit_locked |-> [num |-> 0, den |-> 1],
              r_multiple |-> r_multiple]
        ELSE IF r_multiple.num * self.trail_start_threshold.den
                    >= self.trail_start_threshold.num * r_multiple.den
        THEN [stop_loss |->
                IF signal.direction = "SHORT"
                THEN [num |-> signal.entry * profit_to_lock.den - profit_to_lock.num,
                      den |-> profit_to_lock.den]
                ELSE [num |-> signal.entry * profit_to_lock.den + profit_to_lock.num,
                      den |-> profit_to_lock.den],
              reason |-> "TRAILING",
              profit_locked |-> profit_to_lock,
              r_multiple |-> r_multiple]
        ELSE [stop_loss |-> [num |-> signal.stop_loss, den |-> 1],
              reason |-> "ORIGINAL",
              profit_locked |-> [num |-> 0, den |-> 1],
              r_multiple |-> r_multiple]

\* a Signal with a risk of 0, 4 or 10 ticks, before any call
InitTrailing ==
    /\ \E direction \in {"SHORT", "LONG"}, risk_ticks \in {0, 4, 10} :
        probe = [signal |-> SignalAtRisk(direction, risk_ticks),
                 current_price |-> Unset,
                 stop |-> Unset]
    /\ sg = NewSignalGenerator(4, FALSE)
    /\ ltf_bars = <<>>
    /\ htf_bars = <<>>
    /\ result = Unset
    /\ locals = NoLocals
    /\ calls = 0
    /\ phase = "trailing"
    /\ fresh = Unset
    /\ fresh_result = Unset

\* calculate_stop(signal, current_price) at a price within 25 ticks of the entry
CalculateStop ==
    /\ phase = "trailing"
    /\ \E current_price \in (probe.signal.entry - 25)..(probe.signal.entry + 25) :
        probe' = [probe EXCEPT !.current_price = current_price,
                               !.stop = calculate_stop(TrailingStopManager, probe.signal,
                                                       current_price)]
    /\ UNCHANGED <<ltf_bars, htf_bars, sg, result, locals, calls, phase, fresh,
                   fresh_result>>

SpecTrailing == InitTrailing /\ [][CalculateStop]_vars

(***************************************************************************)
(* Properties                                                              *)
(***************************************************************************)
RequiredStages == {"sweep", "htf_fvg", "ifvg", "cisd"}
Held(entry) == entry # None
IsSignal(r) == r # None /\ r # Unset /\ r # Raised
IsResult(x) == x # None /\ x # Unset /\ x # Raised
AllEmpty(cs) == \A k \in DOMAIN cs : cs[k] = None
DirectionOf(x) == IF IsResult(x) THEN x.direction ELSE "none"

\* C1: every Signal returned carries sweep, htf_fvg, ifvg and cisd
\* confirmations whose directions all equal the Signal's own direction.
C1_SignalDirectionsAgree ==
    IsSignal(result) =>
        \A k \in RequiredStages :
            result.confirmations[k].direction = result.direction

\* C2: in every reachable state each non-empty htf_fvg, ifvg and cisd entry
\* of confirmation_state has the direction of the recorded sweep.
C2_StateDirectionsAgree ==
    \A k \in RequiredStages \ {"sweep"} :
        Held(sg.confirmation_state[k]) =>
            /\ Held(sg.confirmation_state.sweep)
            /\ sg.confirmation_state[k].direction
                  = sg.confirmation_state.sweep.direction

\* C3: within an episode a recorded confirmation, the sweep included, is
\* never replaced: an entry held before a call and held after it is the
\* same entry.
C3_FirstFoundWins ==
    [][\A k \in RequiredStages :
          (Held(sg.confirmation_state[k]) /\ Held(sg'.confirmation_state[k]))
              => sg'.confirmation_state[k] = sg.confirmation_state[k]]_vars

\* C4: the recorded confirmations always form a prefix of the stage order
\* sweep, htf_fvg, ifvg, cisd (, momentum): no stage is held while an
\* earlier one is empty.
C4_StagePrefix ==
    LET cs == sg.confirmation_state
    IN  /\ Held(cs.htf_fvg) => Held(cs.sweep)
        /\ Held(cs.ifvg) => Held(cs.htf_fvg)
        /\ Held(cs.cisd) => Held(cs.ifvg)
        /\ sg.variant = 5 => (Held(cs.momentum) => Held(cs.cisd))

C4_Witness ==
    /\ calls > 0
    /\ Held(sg.confirmation_state.ifvg)
    /\ ~Held(sg.confirmation_state.cisd)

\* C5: a Signal is returned only when every required confirmation is held,
\* and its confirmations snapshot is exactly the recorded entries: those
\* held before the call, and those the call's detectors produced.
C5_SignalSnapshot ==
    [][IsSignal(result') =>
          LET snap == result'.confirmations
              before == sg.confirmation_state
          IN  /\ DOMAIN snap = DOMAIN before
              /\ \A k \in DOMAIN snap : Held(snap[k])
              /\ snap.sweep = IF IsResult(locals'.sweep) THEN locals'.sweep
                              ELSE before.sweep
              /\ snap.htf_fvg = IF Held(before.htf_fvg) THEN before.htf_fvg
                                ELSE locals'.htf_delivery
              /\ snap.ifvg = IF Held(before.ifvg) THEN before.ifvg
                             ELSE locals'.ifvg_inversion
              /\ snap.cisd = IF Held(before.cisd) THEN before.cisd
                             ELSE locals'.cisd]_vars

C5_Witness ==
    /\ IsSignal(result)
    /\ result.confirmations.sweep.time < result.time

\* C6: when check_for_signal returns a Signal every confirmation_state
\* entry is empty on return, and a call made on an empty state returns a
\* Signal only if that call detects a sweep.
C6_ResetAfterSignal ==
    [][/\ IsSignal(result') => AllEmpty(sg'.confirmation_state)
       /\ (AllEmpty(sg.confirmation_state) /\ IsSignal(result'))
              => IsResult(locals'.sweep)]_vars

C6_Witness ==
    /\ IsSignal(result)
    /\ AllEmpty(sg.confirmation_state)
    /\ result.confirmations.sweep.time = result.time

C8_OppositeDeliveryStalls ==
    [][(IsResult(locals'.htf_delivery)
        /\ locals'.htf_delivery.direction # locals'.direction) =>
          /\ result' = None
          /\ sg'.confirmation_state =
                [sg.confirmation_state EXCEPT
                    !.sweep = IF IsResult(locals'.sweep) THEN locals'.sweep ELSE @]
          /\ Held(sg'.confirmation_state.sweep)
          /\ ~Held(sg'.confirmation_state.htf_fvg)]_vars

C8_Witness ==
    /\ IsResult(locals.htf_delivery)
    /\ locals.htf_delivery.direction # locals.direction

\* C9: in the 5-stage variant, with the four confirmations held, a momentum
\* result of the sweep's direction whose multi-timeframe alignment fails
\* returns None and empties all five confirmations; no momentum result, or
\* one of the other direction, returns None and keeps the four.
C9_MomentumDisqualification ==
    [][sg.variant = 5 =>
          LET before == sg.confirmation_state
              after == sg'.confirmation_state
          IN  /\ (locals'.mtf_checked /\ ~locals'.mtf_aligned) =>
                    result' = None /\ AllEmpty(after)
              /\ (locals'.momentum # Unset
                  /\ DirectionOf(locals'.momentum) # locals'.direction) =>
                    /\ result' = None
                    /\ \A k \in RequiredStages : Held(after[k])
                    /\ ~Held(after.momentum)
                    /\ after.sweep = IF IsResult(locals'.sweep)
                                     THEN locals'.sweep ELSE before.sweep
                    /\ after.htf_fvg = IF Held(before.htf_fvg) THEN before.htf_fvg
                                       ELSE locals'.htf_delivery
                    /\ after.ifvg = IF Held(before.ifvg) THEN before.ifvg
                                    ELSE locals'.ifvg_inversion
                    /\ after.cisd = IF Held(before.cisd) THEN before.cisd
                                    ELSE locals'.cisd]_vars

C9_Witness ==
    /\ sg.variant = 5
    /\ locals.mtf_checked
    /\ ~locals.mtf_aligned
    /\ result = None

\* C10: with edge filters disabled, a generator whose confirmation state was
\* reset after an earlier run returns, call for call, what a freshly
\* constructed generator returns for the same calls.
C10_ReplayMatchesFresh ==
    phase = "replay" => result = fresh_result

\* C11: whenever a lookback is not satisfied (fewer than 20 LTF or HTF bars,
\* a sweep that detect_cisd finds in the first 5 bars or not at all, fewer
\* than 78 bars for the structure filter) check_for_signal returns None and
\* every confirmation recorded before or during the call stays in place.
C11_InsufficientDataStalls ==
    [][LET too_few_bars ==
               Len(ltf_bars') < MinLtfBars \/ Len(htf_bars') < MinHtfBars
           cisd_lookback_missed ==
               /\ locals'.cisd # Unset
               /\ SweepPosition(ltf_bars',
                                (IF IsResult(locals'.sweep) THEN locals'.sweep
                                 ELSE sg.confirmation_state.sweep).time) - 1
                     < CisdMinSweepIndex
           structure_lookback_missed ==
               /\ sg.filters_enabled
               /\ locals'.filter_result # Unset
               /\ Len(ltf_bars') < StructureLookback
       IN  (too_few_bars \/ cisd_lookback_missed \/ structure_lookback_missed) =>
              /\ result' = None
              /\ \A k \in RequiredStages :
                    Held(sg.confirmation_state[k]) => Held(sg'.confirmation_state[k])
              /\ IsResult(locals'.sweep) => Held(sg'.confirmation_state.sweep)]_vars

C13_ZeroRiskNeverRaises ==
    (probe.signal.entry = probe.signal.stop_loss /\ probe.position_size # Unset) =>
        /\ probe.signal.risk_reward_ratio.num = 0
        /\ probe.position_size # Raised
        /\ probe.position_size.contracts >= 1

\* C18: for entry # stop, calculate_position_size returns
\* contracts = max(1, min(floor(max_risk_dollars / risk_per_contract), bracket))
\* for MNQ and max(1, floor(max_risk_dollars / risk_per_contract)) otherwise,
\* with risk_per_contract = |entry - stop| / min_tick * tick_value and a bracket
\* of 1 outside all ranges; contracts >= 1 and total_risk_dollars is exactly
\* contracts * risk_per_contract.
C18_PositionSize ==
    (probe.position_size # Unset /\ probe.signal.entry # probe.signal.stop_loss) =>
        LET ps == probe.position_size
            risk_ticks == Abs(probe.signal.entry - probe.signal.stop_loss)
            risk_per_contract == risk_ticks * INSTRUMENTS[probe.symbol].tick_value
            by_risk == probe.sizer.max_risk_dollars \div risk_per_contract
            bracket == get_mnq_contracts(risk_ticks)
            Max(a, b) == IF a > b THEN a ELSE b
            Min(a, b) == IF a < b THEN a ELSE b
        IN  /\ ps # Raised
            /\ ps.risk_per_contract = risk_per_contract
            /\ ps.contracts = (IF probe.symbol = "MNQ"
                               THEN Max(1, Min(by_risk, bracket))
                               ELSE Max(1, by_risk))
            /\ bracket = (IF risk_ticks \in 80..96 THEN 5
                          ELSE IF risk_ticks \in 100..120 THEN 4
                          ELSE IF risk_ticks \in 124..160 THEN 3
                          ELSE IF risk_ticks \in 164..240 THEN 2
                          ELSE IF risk_ticks \in 240..480 THEN 1
                          ELSE 1)
            /\ ps.contracts >= 1
            /\ ps.total_risk_dollars = ps.contracts * risk_per_contract

\* an MNQ position that the bracket table, not the risk budget, limits to
\* five contracts
C18_Witness ==
    /\ probe # Unset
    /\ probe.position_size # Unset
    /\ probe.position_size # Raised
    /\ probe.symbol = "MNQ"
    /\ probe.position_size.contracts = 5
    /\ probe.sizer.max_risk_dollars \div probe.position_size.risk_per_contract > 5

\* C19: simulate_trade scans at most the first 100 future bars in order and
\* decides on the first that touches the stop or the target, the stop being
\* tested first (a bar touching both is a LOSS with pnl = -total_risk_dollars
\* and exit = stop); when no scanned bar touches either the result is
\* BREAKEVEN with pnl 0 and exit = entry, whatever comes after the 100th bar.
C19_SimulateTrade ==
    (probe # Unset /\ probe.trade # Unset) =>
        LET signal == probe.signal
            bars == probe.future_bars
            scanned == IF Len(bars) < 100 THEN Len(bars) ELSE 100
            TouchesStop(k) == IF signal.direction = "SHORT"
                              THEN bars[k].high >= signal.stop_loss
                              ELSE bars[k].low <= signal.stop_loss
            TouchesTarget(k) == IF signal.direction = "SHORT"
                                THEN bars[k].low <= signal.target
                                ELSE bars[k].high >= signal.target
            deciding == {k \in 1..scanned :
                            /\ TouchesStop(k) \/ TouchesTarget(k)
                            /\ \A j \in 1..(k - 1) : ~TouchesStop(j) /\ ~TouchesTarget(j)}
        IN  /\ deciding = {} =>
                /\ probe.trade.result = "BREAKEVEN"
                /\ probe.trade.pnl.num = 0
                /\ probe.trade.exit = signal.entry
            /\ \A k \in deciding :
                /\ probe.trade.bars_held = k
                /\ TouchesStop(k) =>
                    /\ probe.trade.result = "LOSS"
                    /\ probe.trade.pnl =
                          [num |-> 0 - probe.position_size.total_risk_dollars, den |-> 1]
                    /\ probe.trade.exit = signal.stop_loss
                /\ ~TouchesStop(k) =>
                    /\ probe.trade.result = "WIN"
                    /\ probe.trade.exit = signal.target

\* the 100th future bar touches both levels and is the first to touch any:
\* the trade is a LOSS decided at that bar
C19_Witness ==
    /\ probe # Unset
    /\ probe.trade # Unset
    /\ probe.trade.result = "LOSS"
    /\ probe.trade.bars_held = MaxBarsToCheck
    /\ probe.signal.direction = "SHORT"
    /\ probe.future_bars[MaxBarsToCheck].high >= probe.signal.stop_loss
    /\ probe.future_bars[MaxBarsToCheck].low <= probe.signal.target
    /\ probe.future_bars[MaxBarsToCheck + 1].low <= probe.signal.target

\* C14: detect_sweep returns a buyside sweep (direction SHORT, swing_level
\* SH) exactly when the detector holds a latest swing high SH with
\* high >= SH + buffer * min_tick and close < SH; otherwise a sellside sweep
\* (direction LONG, swing_level SL) exactly when it holds a latest swing low
\* SL with low <= SL - buffer * min_tick and close > SL; otherwise None.  One
\* sweep at most is returned, and the buyside one when both conditions hold.
C14_DetectSweep ==
    (probe # Unset /\ probe.sweep # Unset) =>
        LET highs == probe.detector.swing_highs
            lows == probe.detector.swing_lows
            bar == probe.current_bar
            buyside ==
                /\ highs # <<>>
                /\ bar.high >= highs[Len(highs)].price + SWEEP_BUFFER_TICKS * min_tick
                /\ bar.close < highs[Len(highs)].price
            sellside ==
                /\ lows # <<>>
                /\ bar.low <= lows[Len(lows)].price - SWEEP_BUFFER_TICKS * min_tick
                /\ bar.close > lows[Len(lows)].price
        IN  /\ buyside =>
                /\ probe.sweep # None
                /\ probe.sweep.type = "buyside_sweep"
                /\ probe.sweep.direction = "SHORT"
                /\ probe.sweep.swing_level = highs[Len(highs)].price
            /\ (~buyside /\ sellside) =>
                /\ probe.sweep # None
                /\ probe.sweep.type = "sellside_sweep"
                /\ probe.sweep.direction = "LONG"
                /\ probe.sweep.swing_level = lows[Len(lows)].price
            /\ (~buyside /\ ~sellside) => probe.sweep = None

\* the current bar sweeps the swing high and the swing low at once and the
\* buyside sweep is returned
C14_Witness ==
    /\ probe # Unset
    /\ probe.sweep # Unset
    /\ probe.sweep # None
    /\ probe.sweep.type = "buyside_sweep"
    /\ probe.detector.swing_lows # <<>>
    /\ probe.current_bar.low
          <= Last(probe.detector.swing_lows).price - SWEEP_BUFFER_TICKS * min_tick
    /\ probe.current_bar.close > Last(probe.detector.swing_lows).price

\* C15: on a window of at least 20 bars identify_swings flags bar i (0-based)
\* as a swing high exactly when min_swing_candles <= i < len - min_swing_candles
\* and its high is strictly greater than every high of the min_swing_candles
\* bars on each side, and symmetrically for swing lows; fewer than 20 bars
\* yield two empty lists.
C15_IdentifySwings ==
    (probe # Unset /\ probe.swings # Unset) =>
        LET bars == probe.previous_bars
            n == Len(bars)
            Inner(i) == MIN_SWING_CANDLES <= i /\ i < n - MIN_SWING_CANDLES
            Sides(i) == ((i - MIN_SWING_CANDLES)..(i + MIN_SWING_CANDLES)) \ {i}
            HighAt(i) == Inner(i) /\ \A j \in Sides(i) : bars[j + 1].high < bars[i + 1].high
            LowAt(i) == Inner(i) /\ \A j \in Sides(i) : bars[j + 1].low > bars[i + 1].low
            Flagged(swings) == {swings[k].index : k \in 1..Len(swings)}
        IN  IF n < 20
            THEN probe.swings.swing_highs = <<>> /\ probe.swings.swing_lows = <<>>
            ELSE /\ Flagged(probe.swings.swing_highs) = {i \in 0..(n - 1) : HighAt(i)}
                 /\ Flagged(probe.swings.swing_lows) = {i \in 0..(n - 1) : LowAt(i)}
                 /\ \A k \in 1..Len(probe.swings.swing_highs) :
                       probe.swings.swing_highs[k].price
                          = bars[probe.swings.swing_highs[k].index + 1].high
                 /\ \A k \in 1..Len(probe.swings.swing_lows) :
                       probe.swings.swing_lows[k].price
                          = bars[probe.swings.swing_lows[k].index + 1].low

\* a swing high flagged at the first index that is scanned and a swing low
\* at the last one
C15_Witness ==
    /\ probe # Unset
    /\ probe.swings # Unset
    /\ \E k \in 1..Len(probe.swings.swing_highs) :
          probe.swings.swing_highs[k].index = MIN_SWING_CANDLES
    /\ \E k \in 1..Len(probe.swings.swing_lows) :
          probe.swings.swing_lows[k].index
             = Len(probe.previous_bars) - MIN_SWING_CANDLES - 1

\* C16: in every call the swing high and the swing low that detect_sweep
\* compares the current bar against are the most recent ones of a scan over
\* the bars preceding that bar; swings identified on an earlier window are
\* not reused.
C16_SwingsFollowTheData ==
    [][(calls' = calls + 1 /\ locals'.sweep # Unset) =>
          LET scan == swings_returned(AllButLast(ltf_bars'))
              held == sg'.sweep_detector
              Latest(swings) == IF swings = <<>> THEN None
                                ELSE [price |-> Last(swings).price,
                                      time |-> Last(swings).time]
          IN  /\ Latest(held.swing_highs) = Latest(scan.swing_highs)
              /\ Latest(held.swing_lows) = Latest(scan.swing_lows)]_vars

\* C17: over any sequence of check_delivery calls on a list of FVGs, the age
\* of an FVG never decreases, its filled flag never goes back from true to
\* false, and a filled FVG is skipped: its age stays and it is not returned
\* as a delivery.
C17_FvgAgeAndFilled ==
    [][\A k \in 1..Len(probe.fvgs) :
          /\ probe'.fvgs[k].age >= probe.fvgs[k].age
          /\ probe.fvgs[k].filled =>
                /\ probe'.fvgs[k].filled
                /\ probe'.fvgs[k].age = probe.fvgs[k].age
                /\ probe'.delivery # None =>
                      probe'.delivery.fvg.start_time # probe.fvgs[k].start_time
                      \/ probe'.delivery.fvg.type # probe.fvgs[k].type]_vars

\* the first FVG was closed through on the first call and skipped on the
\* second, which returned a delivery from an FVG further down the list
C17_Witness ==
    /\ phase = "delivery"
    /\ probe.calls = 2
    /\ probe.fvgs[1].filled
    /\ probe.fvgs[1].age = 1
    /\ probe.delivery # None

\* C24: check_delivery confirms delivery into a bearish FVG only when the
\* current bar's high lies inside the gap (bottom <= high <= top) and its
\* close is below bottom; for a bullish FVG only when the low lies inside the
\* gap and the close is above top.
C24_DeliveryInsideTheGap ==
    (phase = "delivery" /\ IsResult(probe.delivery)) =>
        LET fvg == probe.delivery.fvg
            bar == probe.current_bar
        IN  IF fvg.type = "bearish"
            THEN /\ fvg.bottom <= bar.high
                 /\ bar.high <= fvg.top
                 /\ bar.close < fvg.bottom
            ELSE /\ fvg.bottom <= bar.low
                 /\ bar.low <= fvg.top
                 /\ bar.close > fvg.top

\* C25: after check_delivery returns a delivery for an FVG, that FVG is marked
\* filled in the list, and the next check_delivery call on the list does not
\* return the same FVG again.
C25_DeliveredFvgIsConsumed ==
    [][(phase = "delivery" /\ IsResult(probe.delivery)) =>
          /\ \A k \in 1..Len(probe.fvgs) :
                (/\ probe.fvgs[k].start_time = probe.delivery.fvg.start_time
                 /\ probe.fvgs[k].type = probe.delivery.fvg.type) =>
                    probe.fvgs[k].filled
          /\ IsResult(probe'.delivery) =>
                \/ probe'.delivery.fvg.start_time # probe.delivery.fvg.start_time
                \/ probe'.delivery.fvg.type # probe.delivery.fvg.type]_vars

\* C26: check_delivery returns the first FVG of the list that is not filled,
\* not expired and meets its delivery condition on the current bar; the FVGs
\* after the returned one are left as they were, and when no FVG qualifies
\* the result is None and every FVG that was not filled is one older.
C26_FirstQualifyingFvg ==
    [][probe'.calls = probe.calls + 1 =>
          LET old == probe.fvgs
              new == probe'.fvgs
              bar == probe'.current_bar
              Qualifies(k) ==
                  /\ ~old[k].filled
                  /\ old[k].age + 1 <= MAX_HTF_FVG_AGE
                  /\ IF old[k].type = "bearish"
                     THEN bar.high >= old[k].bottom /\ bar.close < old[k].bottom
                     ELSE bar.low <= old[k].top /\ bar.close > old[k].top
              qualifying == {k \in 1..Len(old) : Qualifies(k)}
          IN  IF qualifying = {}
              THEN /\ probe'.delivery = None
                   /\ \A k \in 1..Len(old) :
                         ~old[k].filled => new[k].age = old[k].age + 1
              ELSE \E first \in qualifying :
                      /\ \A k \in qualifying : first <= k
                      /\ IsResult(probe'.delivery)
                      /\ probe'.delivery.fvg.start_time = old[first].start_time
                      /\ probe'.delivery.fvg.type = old[first].type
                      /\ probe'.delivery.fvg.age = old[first].age + 1
                      /\ \A k \in 1..Len(old) : k > first => new[k] = old[k]]_vars

\* the second FVG of three was returned: the first one was not reached by the
\* bar and is one older, the third one was not looked at
C26_Witness ==
    /\ phase = "delivery"
    /\ probe.calls = 1
    /\ Len(probe.fvgs) = 3
    /\ IsResult(probe.delivery)
    /\ probe.delivery.fvg.start_time = probe.fvgs[2].start_time
    /\ probe.fvgs[1].age = probe.fvgs[3].age + 1
    /\ ~probe.fvgs[1].filled

\* C27: after update_fvgs(bars) the active set is exactly the list of FVGs
\* identified in the last 50 bars, each with age 0 and filled false; no FVG
\* of the set it replaces is carried over, and no FVG that starts before the
\* last 50 bars is in it.
C27_UpdateFvgsRescans ==
    [][(phase = "detectors" /\ probe'.op = "update_fvgs") =>
          LET bars == probe'.bars
              from == IF Len(bars) > 50 THEN Len(bars) - 49 ELSE 1
              active == probe'.detector.active_fvgs
          IN  /\ active = identify_fvgs(SubSeq(bars, from, Len(bars)))
              /\ \A k \in 1..Len(active) :
                    /\ active[k].age = 0
                    /\ ~active[k].filled
                    /\ active[k].start_time >= bars[from].time
                    /\ \E i \in from..(Len(bars) - 2) :
                          /\ bars[i].time = active[k].start_time
                          /\ IF active[k].type = "bearish"
                             THEN /\ active[k].top = bars[i].high
                                  /\ active[k].bottom = bars[i + 2].low
                             ELSE /\ active[k].top = bars[i + 2].high
                                  /\ active[k].bottom = bars[i].low]_vars

\* an active set of aged FVGs was replaced after a series of more than 50
\* bars whose first bars hold a gap that is not in the new set
C27_Witness ==
    /\ phase = "detectors"
    /\ probe.op = "update_fvgs"
    /\ Len(probe.bars) > 50
    /\ Len(identify_fvgs(probe.bars)) > Len(probe.detector.active_fvgs)
    /\ probe.replaced # <<>>
    /\ probe.replaced[1].age > 0
    /\ probe.replaced[1].filled

\* C28: detect_cisd takes the longest unbroken run of candles of the
\* direction (up-close for SHORT, down-close for LONG) that ends at the bar
\* before the sweep, at most 10 bars; the CISD level is the open of the
\* oldest bar of the run, the CISD is confirmed iff the last bar closes below
\* the level for SHORT or above it for LONG, and an empty run gives None.
C28_CisdRun ==
    (/\ phase = "detectors"
     /\ probe.op = "detect_cisd"
     /\ Len(probe.bars) >= CisdMinBars
     /\ probe.sweep_data.time >= CisdMinSweepIndex) =>
        LET bars == probe.bars
            pos == probe.sweep_data.time + 1
            OfDirection(b) == IF probe.direction = "SHORT" THEN b.close > b.open
                              ELSE b.close < b.open
            lengths == {n \in 0..10 : /\ n <= pos - 1
                                      /\ \A j \in 1..n : OfDirection(bars[pos - j])}
            run == CHOOSE n \in lengths : \A m \in lengths : m <= n
            level == bars[pos - run].open
            close == bars[Len(bars)].close
        IN  IF run = 0 THEN probe.out = None
            ELSE IF \/ probe.direction = "SHORT" /\ close < level
                    \/ probe.direction = "LONG" /\ close > level
            THEN IsResult(probe.out) /\ probe.out.cisd_level = level
            ELSE probe.out = None

\* C29: detect_ifvg_inversion depends only on the last 4 bars c1..c4 and the
\* direction: for SHORT it returns an inversion iff c2.low > c1.low,
\* c2.high < c3.high, c3.high - c1.low >= min_fvg_size_ticks * min_tick and
\* c4.close < c1.low; for LONG iff c2.high < c1.high, c2.low > c3.low,
\* c1.high - c3.low >= min_fvg_size_ticks * min_tick and c4.close > c1.high;
\* the direction returned is the direction asked for.
C29_IfvgLastFourBars ==
    (/\ phase = "detectors"
     /\ probe.op = "detect_ifvg_inversion"
     /\ Len(probe.bars) >= 4) =>
        LET n == Len(probe.bars)
            c1 == probe.bars[n - 3]
            c2 == probe.bars[n - 2]
            c3 == probe.bars[n - 1]
            c4 == probe.bars[n]
            inverted ==
                IF probe.direction = "SHORT"
                THEN /\ c2.low > c1.low
                     /\ c2.high < c3.high
                     /\ c3.high - c1.low >= IFVG_MIN_SIZE_TICKS * min_tick
                     /\ c4.close < c1.low
                ELSE /\ c2.high < c1.high
                     /\ c2.low > c3.low
                     /\ c1.high - c3.low >= IFVG_MIN_SIZE_TICKS * min_tick
                     /\ c4.close > c1.high
        IN  IF inverted
            THEN /\ IsResult(probe.out)
                 /\ probe.out.direction = probe.direction
                 /\ probe.out.inversion_close = c4.close
            ELSE probe.out = None

\* an inversion found in the last 4 bars of a window whose first 4 bars hold
\* no gap
C29_Witness ==
    /\ phase = "detectors"
    /\ probe.op = "detect_ifvg_inversion"
    /\ Len(probe.bars) > 4
    /\ IsResult(probe.out)
    /\ probe.out.direction = "LONG"
    /\ probe.bars[2].low <= probe.bars[1].low

\* C30: for every Signal the pipeline returns, the stop-loss is the swept
\* swing level moved by STOP_LOSS_BUFFER_TICKS ticks and lies on the adverse
\* side of the entry price: above it for SHORT, below it for LONG.
C30_StopOnAdverseSide ==
    IsSignal(result) =>
        LET swing_level == result.confirmations.sweep.swing_level
        IN  IF result.direction = "SHORT"
            THEN /\ result.stop_loss = swing_level + STOP_LOSS_BUFFER_TICKS * min_tick
                 /\ result.stop_loss > result.entry
            ELSE /\ result.stop_loss = swing_level - STOP_LOSS_BUFFER_TICKS * min_tick
                 /\ result.stop_loss < result.entry

C32_ValidatePosition ==
    (phase = "trade" /\ IsResult(probe.position_size)) =>
        LET position == probe.position_size
            budget == probe.sizer.max_risk_dollars
            over == 10 * position.risk_per_contract > 11 * budget
        IN  /\ validate_position(probe.sizer, position)
                  <=> ~(position.contracts = 1 /\ over)
            /\ position.contracts >= 2 =>
                  /\ validate_position(probe.sizer, position)
                  /\ position.total_risk_dollars <= budget
            /\ probe.trade # Unset =>
                  10 * position.total_risk_dollars <= 11 * budget

\* a trade was put on with the single contract of the floor, at a risk above
\* max_risk_dollars and within 110 percent of it
C32_Witness ==
    /\ phase = "trade"
    /\ IsResult(probe.position_size)
    /\ probe.trade # Unset
    /\ probe.position_size.contracts = 1
    /\ probe.position_size.total_risk_dollars > probe.sizer.max_risk_dollars

\* C33: in the backtest the outcome of a trade is decided only by bars
\* strictly after the bar of its Signal: the bar that hits the stop or the
\* target is later than the Signal.
C33_SignalBarNotUsed ==
    (phase = "settled" /\ probe.trade.result # "BREAKEVEN") =>
        probe.future_bars[probe.trade.bars_held].time > probe.signal.time

\* C35: every trade simulated for a Signal of the pipeline has a pnl whose
\* sign matches its result: WIN with pnl > 0, LOSS with pnl < 0, BREAKEVEN
\* with pnl = 0.
C35_PnlSignMatchesResult ==
    phase = "settled" =>
        /\ probe.trade.result = "WIN" => probe.trade.pnl.num > 0
        /\ probe.trade.result = "LOSS" => probe.trade.pnl.num < 0
        /\ probe.trade.result = "BREAKEVEN" => probe.trade.pnl.num = 0

\* C34: the delivery check_for_signal gets from check_delivery is the first
\* FVG of the rescanned list, in insertion order, that meets its delivery
\* condition on the current bar, whatever its direction; when that FVG is of
\* the direction opposite to the sweep, htf_fvg stays empty and the call
\* returns None, even when a later FVG of the sweep's direction meets its
\* condition on the same bar.
C34_FirstDeliveryWinsAnyDirection ==
    [][(calls' = calls + 1 /\ locals'.htf_delivery # Unset) =>
          LET from == IF Len(htf_bars) > 50 THEN Len(htf_bars) - 49 ELSE 1
              fvgs == identify_fvgs(SubSeq(htf_bars, from, Len(htf_bars)))
              bar == Last(ltf_bars')
              Qualifies(k) ==
                  IF fvgs[k].type = "bearish"
                  THEN bar.high >= fvgs[k].bottom /\ bar.close < fvgs[k].bottom
                  ELSE bar.low <= fvgs[k].top /\ bar.close > fvgs[k].top
              qualifying == {k \in 1..Len(fvgs) : Qualifies(k)}
          IN  IF qualifying = {} THEN locals'.htf_delivery = None
              ELSE \E first \in qualifying :
                      /\ \A k \in qualifying : first <= k
                      /\ IsResult(locals'.htf_delivery)
                      /\ locals'.htf_delivery.fvg.start_time = fvgs[first].start_time
                      /\ locals'.htf_delivery.fvg.type = fvgs[first].type
                      /\ fvgs[first].direction # locals'.direction =>
                            /\ sg'.confirmation_state.htf_fvg = None
                            /\ result' = None]_vars

\* a SHORT sweep is held, the call got a LONG delivery from the older bullish
\* FVG and left htf_fvg empty, and the bar also meets the delivery condition
\* of a bearish FVG further down the list
C34_Witness ==
    /\ phase = "crossed"
    /\ IsResult(locals.htf_delivery)
    /\ locals.htf_delivery.direction = "LONG"
    /\ locals.direction = "SHORT"
    /\ sg.confirmation_state.sweep # None
    /\ sg.confirmation_state.htf_fvg = None
    /\ \E k \in 1..Len(sg.htf_fvg_detector.active_fvgs) :
          /\ sg.htf_fvg_detector.active_fvgs[k].type = "bearish"
          /\ Last(ltf_bars).high >= sg.htf_fvg_detector.active_fvgs[k].bottom
          /\ Last(ltf_bars).close < sg.htf_fvg_detector.active_fvgs[k].bottom

\* C36: check_for_signal called again with the same ltf_bars and htf_bars
\* right after it returned a Signal returns None, not a second Signal for the
\* same bar.
C36_OneSignalPerBar ==
    [][(phase = "poll" /\ phase' = "again") => result' = None]_vars

\* C37: every HTF bar handed to check_for_signal at LTF step i is the
\* aggregate of LTF bars whose index is at most i: its time and open are
\* those of an LTF bar a, its close that of an LTF bar b with a <= b <= i, its
\* high and low the extremes of the bars a..b.
C37_NoLookaheadInHtfBars ==
    (phase = "backtest" /\ calls > 0) =>
        \A k \in 1..Len(htf_bars) :
            \E a \in 1..(probe.current + 1) :
                \E b \in a..(probe.current + 1) :
                    /\ htf_bars[k].time = ltf_bars[a].time
                    /\ htf_bars[k].open = ltf_bars[a].open
                    /\ htf_bars[k].close = ltf_bars[b].close
                    /\ \A c \in a..b : /\ ltf_bars[c].high <= htf_bars[k].high
                                        /\ ltf_bars[c].low >= htf_bars[k].low
                    /\ \E c \in a..b : ltf_bars[c].high = htf_bars[k].high
                    /\ \E c \in a..b : ltf_bars[c].low = htf_bars[k].low

\* a step whose newest HTF bar ends exactly on the current LTF bar
C37_Witness ==
    /\ phase = "backtest"
    /\ calls > 0
    /\ htf_bars # <<>>
    /\ Last(htf_bars).close = ltf_bars[probe.current + 1].close
    /\ probe.current + 1 < Len(ltf_bars)

\* C38: in the live loop trades_today never exceeds MAX_TRADES_PER_DAY and
\* len(signals_today) equals trades_today; an alert is sent only while
\* trades_today < MAX_TRADES_PER_DAY; trades_today grows, by one, exactly in
\* the passes that send an alert successfully; and the two are reset only by
\* the pass that closes the session.
C38_TradesTodayWithinLimit ==
    /\ [](phase = "live" =>
            /\ probe.trades_today <= MAX_TRADES_PER_DAY
            /\ Len(probe.signals_today) = probe.trades_today)
    /\ [][phase = "live" =>
            /\ probe'.alert \in {"sent", "failed"} =>
                    probe.trades_today < MAX_TRADES_PER_DAY
            /\ probe'.alert = "sent" <=>
                    probe'.trades_today = probe.trades_today + 1
            /\ probe'.alert = "sent" =>
                    probe'.signals_today = Append(probe.signals_today, result')
            /\ probe'.alert # "sent" =>
                    \/ /\ probe'.trades_today = probe.trades_today
                       /\ probe'.signals_today = probe.signals_today
                    \/ /\ probe.is_trading /\ ~probe'.is_trading
                       /\ probe'.now.minute > SessionMinutes
                       /\ probe'.trades_today = 0
                       /\ probe'.signals_today = <<>>]_vars

\* a Signal that would pass every other check arrives when the limit is
\* reached, and is dropped
C38_Witness ==
    /\ phase = "live"
    /\ probe.alert = "max_trades"
    /\ probe.trades_today = MAX_TRADES_PER_DAY
    /\ result \in LiveSignals
    /\ handle_signal_unlimited(probe, result, probe.symbol, TRUE).alert = "sent"

\* C39: calculate_stop returns BREAKEVEN with the stop at the entry when
\* 1.0 <= r_multiple < 1.5, TRAILING with a stop that locks in
\* (r_multiple - 0.5) * risk of profit when r_multiple >= 1.5, and the
\* original stop with ORIGINAL when r_multiple < 1.0.
C39_StopByRMultiple ==
    (phase = "trailing" /\ probe.stop # Unset) =>
        LET r == probe.stop.r_multiple
            s == probe.stop.stop_loss
            locked == [num |-> 2 * r.num * probe.signal.risk - r.den * probe.signal.risk,
                       den |-> 2 * r.den]
        IN  /\ (r.num >= r.den /\ 2 * r.num < 3 * r.den) =>
                    /\ probe.stop.reason = "BREAKEVEN"
                    /\ s.num = probe.signal.entry * s.den
            /\ 2 * r.num >= 3 * r.den =>
                    /\ probe.stop.reason = "TRAILING"
                    /\ probe.stop.profit_locked.num * locked.den
                            = locked.num * probe.stop.profit_locked.den
                    /\ s.num * locked.den =
                            (IF probe.signal.direction = "SHORT"
                             THEN probe.signal.entry * locked.den - locked.num
                             ELSE probe.signal.entry * locked.den + locked.num) * s.den
            /\ r.num < r.den =>
                    /\ probe.stop.reason = "ORIGINAL"
                    /\ s.num = probe.signal.stop_loss * s.den

\* C20: a Signal is emitted only when all its confirmations were recorded
\* within a bounded validity window: a confirmation recorded more than
\* ALERT_VALID_DURATION calls (one bar per call) before the emitting call is
\* not part of the Signal.
C20_ValidityWindow ==
    IsSignal(result) =>
        /\ result.time - result.confirmations.sweep.time <= ALERT_VALID_DURATION
        /\ result.time - result.confirmations.htf_fvg.delivery_time
              <= ALERT_VALID_DURATION
        /\ result.time - result.confirmations.ifvg.inversion_time <= ALERT_VALID_DURATION
        /\ result.time - result.confirmations.cisd.time <= ALERT_VALID_DURATION

\* C21: a check_for_signal call evaluates only the next unfilled stage: one
\* call records at most one new confirmation, so no call both records the
\* sweep and returns a Signal.
C21_OneStagePerCall ==
    [][calls' = calls + 1 =>
          /\ Cardinality({k \in {"sweep", "htf_delivery", "ifvg_inversion", "cisd"} :
                             IsResult(locals'[k])}) <= 1
          /\ IsSignal(result') => ~IsResult(locals'.sweep)]_vars

\* C22: in the pipeline the age of the HTF FVG of a given bar triple grows by
\* one with every check_for_signal call that evaluates it (until it expires
\* past MAX_HTF_FVG_AGE): a call that evaluates the HTF stage leaves a
\* not yet filled FVG one call older than the call before left it.
C22_PipelineFvgAges ==
    [][(calls' = calls + 1 /\ locals'.htf_delivery # Unset) =>
          \A k \in 1..Len(sg.htf_fvg_detector.active_fvgs) :
             \A j \in 1..Len(sg'.htf_fvg_detector.active_fvgs) :
                LET old == sg.htf_fvg_detector.active_fvgs[k]
                    new == sg'.htf_fvg_detector.active_fvgs[j]
                IN  (/\ old.start_time = new.start_time
                     /\ old.type = new.type
                     /\ ~old.filled
                     /\ new.age > 0) => new.age = old.age + 1]_vars

\* C23: in the pipeline an HTF FVG that a close through the gap has marked
\* filled is dropped for good: no later check_for_signal call records an HTF
\* confirmation from the gap of the same bar triple.
C23_InvalidatedFvgStaysDropped ==
    [][(/\ calls' = calls + 1
        /\ IsResult(locals'.htf_delivery)
        /\ locals'.htf_delivery.direction = locals'.direction) =>
          \A k \in 1..Len(sg.htf_fvg_detector.active_fvgs) :
             LET old == sg.htf_fvg_detector.active_fvgs[k]
             IN  (old.filled /\ old.age <= MAX_HTF_FVG_AGE) =>
                    \/ locals'.htf_delivery.fvg.start_time # old.start_time
                    \/ locals'.htf_delivery.fvg.type # old.type]_vars

====
